---- MODULE Spec2Model ----
(***************************************************************************)
(* Model of hotdoc's incremental page tree (hotdoc/core/doc_tree.py):      *)
(* Page, PageParser and DocTree, run over a small file system of markdown  *)
(* sources, across several runs separated by persist / reload.             *)
(*                                                                         *)
(* Python objects are modelled with identity: `heap` is the sequence of    *)
(* Page objects allocated by the running process, and the page map and the *)
(* symbol maps hold indexes into it (0 stands for None).                   *)
(***************************************************************************)
EXTENDS Integers, Sequences, FiniteSets, TLC

(***************************************************************************)
(* Bounds of the model.                                                    *)
(***************************************************************************)
\* number of links the index file holds when the behaviour starts
MaxInitLinks == 1
\* number of file edits in one behaviour
MaxEdits == 2
\* number of DocTree instances (runs) in one behaviour
MaxRuns == 3
\* length of the symbol list of one source file
MaxSyms == 1
\* number of links of one source file
MaxLinks == 2
\* stands for the interpreter's recursion limit: deeper recursion raises
MaxDepth == 5

(***************************************************************************)
(* The universe: source files, link destinations, symbol names.            *)
(***************************************************************************)
\* the index file handed to build_tree
IndexFile == "index"
\* the page an extension generates for its well-known name
GenFile == "gen"
\* markdown files found under the prefix (heading links resolve to these)
UserPaths == {"index", "a"}
Paths == UserPaths \cup {GenFile}
\* the order in which the model enumerates a dict of pages
PathOrder == <<"index", "a", "gen">>
\* the well-known name registered by the extension
WellKnownName == "wkn"
\* link destinations a source file may hold
Dests == UserPaths \cup {WellKnownName}
\* extension_name None, and the name of the one extension
NoExt == "None"
ExtName == "ext"
\* symbol names listed in source files
Names == {"s", "t"}
\* a Symbol object: Symbol is a class mapped by the session and compares by
\* identity, so an object is told by its name and by the process that made it
ObjectOf(name, run) == "@" \o name \o "#" \o ToString(run)
Objects == {ObjectOf(n, r) : n \in Names, r \in 0..MaxRuns}
\* everything that can end up in a page's symbol_names
Keys == Names \cup Objects
\* None, as a page reference
NonePage == 0
\* the mtime of a page whose source cannot be stat'ed
NoMtime == -1

VARIABLES
    fs,                     \* the source files: existence, contents, mtime
    edits,                  \* number of edits so far (also the clock of mtimes)
    runs,                   \* number of DocTree instances constructed so far
    phase,                  \* where the current run stands
    store,                  \* the private folder: pages.p and symbol_maps.p
    heap,                   \* the Page objects of the running process
    pages,                  \* DocTree.pages: source file -> page
    symbol_maps,            \* DocTree.__symbol_maps: key -> source file -> page
    previous_symbol_maps,   \* DocTree.__previous_symbol_maps (its key sets)
    seen_pages,             \* PageParser.__seen_pages
    connected,              \* adding_symbol_signal is connected to this tree
    root,                   \* DocTree.__root
    incremental,            \* doc_tool.incremental
    moved_symbols,          \* what build_tree returned as moved
    failure,                \* the exception that ended the last run, if any
    walker,                 \* the generator DocTree.walk returned
    touched,                \* files written since the persisted run read them
    changed,                \* files whose contents changed since then
    before,                 \* the page map as it was when last persisted
    touch_only,             \* the persisted run followed a touch of the index
    late,                   \* files written since build_tree of this run returned
    src_mtime,              \* os.path.getmtime of the extensions' sources
    ext_sources,            \* extension.get_source_files(), per extension
    change_tracker,         \* doc_tool.change_tracker of the running process
    tracker_store,          \* the private folder: change_tracker.p
    set_up,                 \* where DocTool.setup stands, per extension
    stale_source_files,     \* what set_stale_source_files received
    stale_files,            \* what get_stale_files last returned
    corrupt,                \* the files of the private folder cut short
    logger,                 \* the class attributes of Logger
    log_obs,                \* what the last call of Logger did
    lookup,                 \* the last lookup or notification, and its result
    added,                  \* the names handed to add_symbol of a lone page
    tree2                   \* a second DocTree of the running process

vars == <<fs, edits, runs, phase, store, heap, pages, symbol_maps,
          previous_symbol_maps, seen_pages, connected, root, incremental,
          moved_symbols, failure, walker, touched, changed, before,
          touch_only, late, src_mtime, ext_sources, change_tracker, tracker_store,
          set_up, stale_source_files, stale_files, corrupt,
          logger, log_obs, lookup, added, tree2>>

\* the Symbol object the session of the running process holds for a name:
\* one object per name and process
SymbolObject(name) == ObjectOf(name, runs)

\* the attributes of the DocTree of the running process
treeVars == <<heap, pages, symbol_maps, previous_symbol_maps, seen_pages,
              connected, root, incremental, moved_symbols>>

\* what the model remembers of the sources since the last persist
historyVars == <<touched, changed, before, touch_only, late>>

\* the Logger, and what callers of the tree's and the page's methods saw
extraVars == <<logger, log_obs, lookup, added, tree2>>

\* the DocTool around the tree: its change tracker and its extensions
toolVars == <<src_mtime, ext_sources, change_tracker, tracker_store, set_up,
              stale_source_files, stale_files, corrupt>>

(***************************************************************************)
(* Containers.                                                             *)
(***************************************************************************)
EmptyMap == [x \in {} |-> NonePage]

\* dict[k] = v
MapSet(f, k, v) == [x \in (DOMAIN f) \cup {k} |-> IF x = k THEN v ELSE f[x]]

Range(seq) == {seq[i] : i \in 1..Len(seq)}

\* sequences over S of length at most n
BoundedSeq(S, n) == UNION {[1..k -> S] : k \in 0..n}

\* OrderedSet.add: a member keeps its place, a new one goes last
OrderedSetAdd(seq, x) == IF x \in Range(seq) THEN seq ELSE Append(seq, x)

\* the keys of an OrderedDict held as a sequence of [path, ext] items
DictKeys(items) == {items[i].path : i \in 1..Len(items)}

\* OrderedDict[k] = v: a known key keeps its place and takes the new value
OrderedDictSet(items, k, v) ==
    IF k \in DictKeys(items)
    THEN [i \in 1..Len(items) |->
            IF items[i].path = k THEN [path |-> k, ext |-> v] ELSE items[i]]
    ELSE Append(items, [path |-> k, ext |-> v])

\* the sequence PathOrder restricted to the paths of S
InOrder(S) == SelectSeq(PathOrder, LAMBDA p : p \in S)

(***************************************************************************)
(* Page.                                                                   *)
(***************************************************************************)
\* os.path.getmtime in Page.__init__: the file's mtime, -1 on OSError
GetMtime(source_file) ==
    IF fs[source_file].exists THEN fs[source_file].mtime ELSE NoMtime

\* Page.__init__
NewPage(source_file, extension_name) ==
    [source_file    |-> source_file,
     symbol_names   |-> <<>>,
     subpages       |-> <<>>,
     extension_name |-> extension_name,
     is_stale       |-> TRUE,
     ast            |-> TRUE,
     typed_symbols  |-> FALSE,
     symbols        |-> <<>>,
     mtime          |-> GetMtime(source_file)]

\* Page.__getstate__ keeping the staleness: a plausible slip
GetStateKeepStale(page) ==
    [page EXCEPT !.ast = FALSE, !.typed_symbols = FALSE, !.symbols = <<>>]

\* Page.__getstate__: what is pickled for a page
GetState(page) ==
    [source_file    |-> page.source_file,
     symbol_names   |-> page.symbol_names,
     subpages       |-> page.subpages,
     extension_name |-> page.extension_name,
     is_stale       |-> FALSE,
     ast            |-> FALSE,
     typed_symbols  |-> FALSE,
     symbols        |-> <<>>,
     mtime          |-> page.mtime]

\* unpickling a Page: the pickled state becomes the object's attributes
SetState(state) ==
    [source_file    |-> state.source_file,
     symbol_names   |-> state.symbol_names,
     subpages       |-> state.subpages,
     extension_name |-> state.extension_name,
     is_stale       |-> state.is_stale,
     ast            |-> state.ast,
     typed_symbols  |-> state.typed_symbols,
     symbols        |-> state.symbols,
     mtime          |-> state.mtime]

(***************************************************************************)
(* The state a DocTree operation works on: t.heap, t.pages, t.symbol_maps, *)
(* t.seen (PageParser.__seen_pages), t.failure (the exception that left    *)
(* the operation), t.ret (the value returned by the last call), and        *)
(* t.requests (the calls of __do_build_tree made so far).                  *)
(***************************************************************************)
\* no exception
NoFailure == "none"
\* RuntimeError: maximum recursion depth exceeded, in __do_build_tree
BuildRecursion == "build_recursion"
\* the same, in DocTree.resolve_symbols
ResolveRecursion == "resolve_recursion"
\* the same, in Page.__query_extra_symbols
ExpansionRecursion == "expansion_recursion"
\* AttributeError: parse returned None and the page is used
NoPageError == "no_page"
\* KeyError: a subpage is not a key of DocTree.pages
KeyError == "key_error"
\* AttributeError: walk resumed while the root of the tree is None
NoRootError == "no_root"
\* RuntimeError: maximum recursion depth exceeded, in DocTree.walk
WalkRecursion == "walk_recursion"

\* no generator was made yet
NoWalk ==
    [state |-> "none", yielded |-> <<>>, frames |-> <<>>, raised |-> NoFailure,
     pages |-> EmptyMap, run |-> 0]

TreeState ==
    [heap |-> heap, pages |-> pages, symbol_maps |-> symbol_maps,
     seen |-> seen_pages, failure |-> NoFailure, ret |-> NonePage,
     requests |-> {}]

Failed(t) == t.failure # NoFailure

\* DocTree.__add_to_symbol_map
AddToSymbolMap(t, id, unique_name) ==
    [t EXCEPT !.symbol_maps[unique_name] =
        MapSet(@, t.heap[id].source_file, id)]

\* an add_symbol that appends to a plain list: a plausible slip
AddSymbolAppending(t, id, unique_name, conn) ==
    LET t1 == IF conn THEN AddToSymbolMap(t, id, unique_name) ELSE t
    IN  [t1 EXCEPT !.heap[id].symbol_names = Append(@, unique_name)]

\* Page.add_symbol: emit adding_symbol_signal, then add to the ordered set
AddSymbol(t, id, unique_name, conn) ==
    LET t1 == IF conn THEN AddToSymbolMap(t, id, unique_name) ELSE t
    IN  [t1 EXCEPT !.heap[id].symbol_names = OrderedSetAdd(@, unique_name)]

RECURSIVE AddSymbols(_, _, _, _, _)
\* add_symbol on names[i..], in order
AddSymbols(t, id, names, i, conn) ==
    IF i > Len(names) THEN t
    ELSE AddSymbols(AddSymbol(t, id, names[i], conn), id, names, i + 1, conn)

(***************************************************************************)
(* PageParser.                                                             *)
(***************************************************************************)
\* the handler registered for the well-known name: (subpage, extension_name)
WellKnownHandler == [subpage |-> GenFile, extension_name |-> ExtName]

\* os.path.exists(os.path.join(prefix, destination))
LinkPath(dest) == dest \in UserPaths /\ fs[dest].exists

\* PageParser.__check_links on one heading link
CheckLink(t, id, dest) ==
    IF dest = WellKnownName
    THEN [t EXCEPT !.heap[id].subpages =
            OrderedDictSet(@, WellKnownHandler.subpage,
                           WellKnownHandler.extension_name)]
    ELSE IF LinkPath(dest)
    THEN IF dest \notin t.seen
         THEN [t EXCEPT !.heap[id].subpages =
                    OrderedDictSet(@, dest, t.heap[id].extension_name),
                        !.seen = @ \cup {dest}]
         ELSE t
    ELSE t

RECURSIVE CheckLinks(_, _, _, _)
\* PageParser.__check_links over the links of the document, in order
CheckLinks(t, id, links, i) ==
    IF i > Len(links) THEN t
    ELSE CheckLinks(CheckLink(t, id, links[i]), id, links, i + 1)

\* PageParser.parse: t.ret is the new page, None when the file is missing
Parse(t, source_file, extension_name, conn) ==
    IF ~fs[source_file].exists
    THEN [t EXCEPT !.ret = NonePage]
    ELSE LET id == Len(t.heap) + 1
             t1 == [t EXCEPT
                      !.heap = Append(@, NewPage(source_file, extension_name))]
             t2 == AddSymbols(t1, id, fs[source_file].syms, 1, conn)
             t3 == CheckLinks(t2, id, fs[source_file].links, 1)
         IN  [t3 EXCEPT !.ret = id]

(***************************************************************************)
(* DocTree.                                                                *)
(***************************************************************************)
\* the reuse test of __do_build_tree without the mtime test: a plausible slip
ReusableNoMtime(t, source_file, extension_name) ==
    /\ source_file \in DOMAIN t.pages
    /\ extension_name = t.heap[t.pages[source_file]].extension_name

\* __do_build_tree: the page loaded for source_file can be kept as it is
Reusable(t, source_file, extension_name) ==
    /\ source_file \in DOMAIN t.pages
    /\ extension_name = t.heap[t.pages[source_file]].extension_name
    /\ \/ ~fs[source_file].exists
       \/ fs[source_file].mtime = t.heap[t.pages[source_file]].mtime

RECURSIVE DoBuildTree(_, _, _, _, _)
RECURSIVE BuildSubpages(_, _, _, _, _)

\* DocTree.__do_build_tree
DoBuildTree(t, source_file, extension_name, depth, conn) ==
    IF depth > MaxDepth THEN [t EXCEPT !.failure = BuildRecursion]
    ELSE LET t0 == [t EXCEPT !.requests =
                       @ \cup {[path |-> source_file, ext |-> extension_name]}]
             t1 == IF Reusable(t0, source_file, extension_name)
                   THEN [t0 EXCEPT !.ret = t0.pages[source_file]]
                   ELSE Parse(t0, source_file, extension_name, conn)
             t2 == [t1 EXCEPT !.pages = MapSet(@, source_file, t1.ret)]
         IN  IF t1.ret = NonePage
             THEN [t2 EXCEPT !.failure = NoPageError]
             ELSE BuildSubpages(t2, t2.heap[t1.ret].subpages, 1, depth, conn)

\* the loop of __do_build_tree over page.subpages.items()
BuildSubpages(t, items, i, depth, conn) ==
    IF Failed(t) \/ i > Len(items) THEN t
    ELSE BuildSubpages(
            DoBuildTree(t, items[i].path, items[i].ext, depth + 1, conn),
            items, i + 1, depth, conn)

\* DocTree.__symbol_has_moved
SymbolHasMoved(t, unique_name) ==
    /\ incremental
    /\ DOMAIN t.symbol_maps[unique_name] # previous_symbol_maps[unique_name]

\* one step of the inner loop of __update_symbol_maps
UpdateSymbolMapsName(u, id, name) ==
    LET t1 == AddToSymbolMap(u.t, id, name)
    IN  [t |-> t1,
         moved |-> IF SymbolHasMoved(t1, name)
                   THEN u.moved \cup {name} ELSE u.moved]

RECURSIVE UpdateSymbolMapsPage(_, _, _, _)
\* the inner loop of __update_symbol_maps: the names of one page
UpdateSymbolMapsPage(u, id, names, i) ==
    IF i > Len(names) THEN u
    ELSE UpdateSymbolMapsPage(UpdateSymbolMapsName(u, id, names[i]),
                              id, names, i + 1)

RECURSIVE UpdateSymbolMapsFrom(_, _, _)
\* the outer loop of __update_symbol_maps: self.pages.values()
UpdateSymbolMapsFrom(u, order, i) ==
    IF i > Len(order) THEN u
    ELSE LET id == u.t.pages[order[i]]
         IN  UpdateSymbolMapsFrom(
                UpdateSymbolMapsPage(u, id, u.t.heap[id].symbol_names, 1),
                order, i + 1)

\* DocTree.__update_symbol_maps: [t, moved]
UpdateSymbolMaps(t) ==
    UpdateSymbolMapsFrom([t |-> t, moved |-> {}], InOrder(DOMAIN t.pages), 1)

(***************************************************************************)
(* The Logger: class attributes shared by every caller, a journal of       *)
(* entries, codes registered as errors or warnings, ignored codes and      *)
(* domains, a checkpoint into the journal.                                 *)
(***************************************************************************)
MaxLogCalls == 5

INFO == 0
WARNING == 1
ERROR == 2

Codes == {"c1", "c2"}
Domains == {"core", "d"}
ErrorException == "ErrorException"
WarningException == "WarningException"
AssertionError == "AssertionError"
NoException == "none"
Message == "message"
NoData == "None"
ExtraData == "data"

\* the attributes of class Logger as the class body sets them
InitialLogger ==
    [error_code_to_exception   |-> EmptyMap,
     domain_codes              |-> EmptyMap,
     warning_code_to_exception |-> EmptyMap,
     journal                   |-> <<>>,
     fatal_warnings            |-> FALSE,
     ignored_codes             |-> {},
     ignored_domains           |-> {},
     extra_log_data            |-> NoData,
     last_checkpoint           |-> 0,
     verbose                   |-> FALSE]

\* the outcome of a call: the Logger it leaves, the exception it raises and
\* what it returns
Outcome(L, raised, result) == [logger |-> L, raised |-> raised, result |-> result]

\* defaultdict(set): Logger._domain_codes[domain].add(code)
DomainAdd(dc, domain, code) ==
    MapSet(dc, domain,
           (IF domain \in DOMAIN dc THEN dc[domain] ELSE {}) \cup {code})

\* Logger.register_error_code
RegisterErrorCode(L, code, exception_type, domain) ==
    Outcome([L EXCEPT
               !.error_code_to_exception =
                   MapSet(@, code, [exc |-> exception_type, domain |-> domain]),
               !.domain_codes = DomainAdd(@, domain, code)],
            NoException, <<>>)

\* Logger.register_warning_code
RegisterWarningCode(L, code, exception_type, domain) ==
    Outcome([L EXCEPT
               !.warning_code_to_exception =
                   MapSet(@, code, [exc |-> exception_type, domain |-> domain]),
               !.domain_codes = DomainAdd(@, domain, code)],
            NoException, <<>>)

\* Logger._log
Log(L, code, message, level, domain) ==
    [L EXCEPT !.journal = Append(@, [extra   |-> L.extra_log_data,
                                     level   |-> level,
                                     domain  |-> domain,
                                     code    |-> code,
                                     message |-> message])]

\* an error that honours the ignored codes and domains: a plausible slip
LoggerErrorIgnorable(L, code, message) ==
    IF code \notin DOMAIN L.error_code_to_exception
    THEN Outcome(L, AssertionError, <<>>)
    ELSE LET reg == L.error_code_to_exception[code]
         IN  IF code \in L.ignored_codes \/ reg.domain \in L.ignored_domains
             THEN Outcome(L, NoException, <<>>)
             ELSE Outcome(Log(L, code, message, ERROR, reg.domain),
                          reg.exc, <<>>)

\* Logger.error
LoggerError(L, code, message) ==
    IF code \notin DOMAIN L.error_code_to_exception
    THEN Outcome(L, AssertionError, <<>>)
    ELSE LET reg == L.error_code_to_exception[code]
         IN  Outcome(Log(L, code, message, ERROR, reg.domain), reg.exc, <<>>)

\* a warn that forgets the ignored domains: a plausible slip
LoggerWarnCodesOnly(L, code, message) ==
    IF code \in L.ignored_codes THEN Outcome(L, NoException, <<>>)
    ELSE IF code \notin DOMAIN L.warning_code_to_exception
    THEN Outcome(L, AssertionError, <<>>)
    ELSE LET reg == L.warning_code_to_exception[code]
             level == IF L.fatal_warnings THEN ERROR ELSE WARNING
         IN  Outcome(Log(L, code, message, level, reg.domain),
                     IF L.fatal_warnings THEN reg.exc ELSE NoException,
                     <<>>)

\* a warn that always logs at WARNING level: a plausible slip
LoggerWarnOneLevel(L, code, message) ==
    IF code \in L.ignored_codes THEN Outcome(L, NoException, <<>>)
    ELSE IF code \notin DOMAIN L.warning_code_to_exception
    THEN Outcome(L, AssertionError, <<>>)
    ELSE LET reg == L.warning_code_to_exception[code]
         IN  IF reg.domain \in L.ignored_domains
             THEN Outcome(L, NoException, <<>>)
             ELSE Outcome(Log(L, code, message, WARNING, reg.domain),
                          IF L.fatal_warnings THEN reg.exc ELSE NoException,
                          <<>>)

\* Logger.warn
LoggerWarn(L, code, message) ==
    IF code \in L.ignored_codes THEN Outcome(L, NoException, <<>>)
    ELSE IF code \notin DOMAIN L.warning_code_to_exception
    THEN Outcome(L, AssertionError, <<>>)
    ELSE LET reg == L.warning_code_to_exception[code]
         IN  IF reg.domain \in L.ignored_domains
             THEN Outcome(L, NoException, <<>>)
             ELSE LET level == IF L.fatal_warnings THEN ERROR ELSE WARNING
                  IN  Outcome(Log(L, code, message, level, reg.domain),
                              IF L.fatal_warnings THEN reg.exc
                              ELSE NoException,
                              <<>>)

\* Logger.info
LoggerInfo(L, message, domain) ==
    IF ~L.verbose \/ domain \in L.ignored_domains
    THEN Outcome(L, NoException, <<>>)
    ELSE Outcome(Log(L, NoData, message, INFO, domain), NoException, <<>>)

\* Logger.add_ignored_code
AddIgnoredCode(L, code) ==
    Outcome([L EXCEPT !.ignored_codes = @ \cup {code}], NoException, <<>>)

\* Logger.add_ignored_domain
AddIgnoredDomain(L, domain) ==
    Outcome([L EXCEPT !.ignored_domains = @ \cup {domain}], NoException, <<>>)

\* Logger.checkpoint
Checkpoint(L) ==
    Outcome([L EXCEPT !.last_checkpoint = Len(L.journal)], NoException, <<>>)

\* since_checkpoint returning the whole journal: a plausible slip
SinceCheckpointAll(L) == Outcome(L, NoException, L.journal)

\* Logger.since_checkpoint: journal[_last_checkpoint:]
SinceCheckpoint(L) ==
    Outcome(L, NoException,
            SubSeq(L.journal, L.last_checkpoint + 1, Len(L.journal)))

\* a reset that keeps the checkpoint and the ignored domains: a plausible slip
LoggerResetPartial(L) ==
    Outcome([InitialLogger EXCEPT !.last_checkpoint = L.last_checkpoint,
                                  !.ignored_domains = L.ignored_domains],
            NoException, <<>>)

\* Logger.reset
LoggerReset(L) == Outcome(InitialLogger, NoException, <<>>)

\* no call of the Logger yet
NoLogCall ==
    [calls |-> 0, op |-> "none", code |-> NoData, domain |-> NoData,
     raised |-> NoException, result |-> <<>>, prev |-> InitialLogger,
     since |-> <<>>]

\* the entries appended since the last checkpoint or reset, after a call took
\* the Logger from L to M
Since(op, L, M, since) ==
    IF op \in {"checkpoint", "reset"} THEN <<>>
    ELSE IF Len(M.journal) > Len(L.journal)
    THEN Append(since, M.journal[Len(M.journal)])
    ELSE since

\* a call of the Logger: the class attributes change, the caller sees what
\* was raised and returned
LogCall(op, code, domain, out) ==
    /\ logger' = out.logger
    /\ log_obs' = [calls  |-> log_obs.calls + 1,
                   op     |-> op,
                   code   |-> code,
                   domain |-> domain,
                   raised |-> out.raised,
                   result |-> out.result,
                   prev   |-> logger,
                   since  |-> Since(op, logger, out.logger, log_obs.since)]
    /\ UNCHANGED <<fs, edits, runs, phase, store, treeVars, failure, walker,
                   historyVars, toolVars, lookup, added, tree2>>

RegisterError(code, domain) ==
    /\ log_obs.calls < MaxLogCalls
    /\ LogCall("register_error_code", code, domain,
               RegisterErrorCode(logger, code, ErrorException, domain))

RegisterWarning(code, domain) ==
    /\ log_obs.calls < MaxLogCalls
    /\ LogCall("register_warning_code", code, domain,
               RegisterWarningCode(logger, code, WarningException, domain))

Error(code) ==
    /\ log_obs.calls < MaxLogCalls
    /\ LogCall("error", code, NoData, LoggerError(logger, code, Message))

Warn(code) ==
    /\ log_obs.calls < MaxLogCalls
    /\ LogCall("warn", code, NoData, LoggerWarn(logger, code, Message))

Info(domain) ==
    /\ log_obs.calls < MaxLogCalls
    /\ LogCall("info", NoData, domain, LoggerInfo(logger, Message, domain))

IgnoreCode(code) ==
    /\ log_obs.calls < MaxLogCalls
    /\ LogCall("add_ignored_code", code, NoData, AddIgnoredCode(logger, code))

IgnoreDomain(domain) ==
    /\ log_obs.calls < MaxLogCalls
    /\ LogCall("add_ignored_domain", NoData, domain,
               AddIgnoredDomain(logger, domain))

TakeCheckpoint ==
    /\ log_obs.calls < MaxLogCalls
    /\ LogCall("checkpoint", NoData, NoData, Checkpoint(logger))

ReadSinceCheckpoint ==
    /\ log_obs.calls < MaxLogCalls
    /\ LogCall("since_checkpoint", NoData, NoData, SinceCheckpoint(logger))

Reset ==
    /\ log_obs.calls < MaxLogCalls
    /\ LogCall("reset", NoData, NoData, LoggerReset(logger))

\* Logger.fatal_warnings = True
SetFatalWarnings ==
    /\ log_obs.calls < MaxLogCalls
    /\ ~logger.fatal_warnings
    /\ LogCall("fatal_warnings", NoData, NoData,
               Outcome([logger EXCEPT !.fatal_warnings = TRUE],
                       NoException, <<>>))

\* Logger._verbose = True
SetVerbose ==
    /\ log_obs.calls < MaxLogCalls
    /\ ~logger.verbose
    /\ LogCall("verbose", NoData, NoData,
               Outcome([logger EXCEPT !.verbose = TRUE], NoException, <<>>))

\* Logger.extra_log_data = ...
SetExtraLogData ==
    /\ log_obs.calls < MaxLogCalls
    /\ logger.extra_log_data = NoData
    /\ LogCall("extra_log_data", NoData, NoData,
               Outcome([logger EXCEPT !.extra_log_data = ExtraData],
                       NoException, <<>>))

\* the second DocTree before it is constructed
NoSecondTree ==
    [created |-> FALSE, pages |-> EmptyMap,
     symbol_maps |-> [k \in Keys |-> EmptyMap], seen |-> {},
     connected |-> FALSE, root |-> NonePage,
     calls |-> 0, op |-> "none", on |-> "none"]

\* the Logger as the class body leaves it; no lookup, no lone page, one tree
ExtraInit ==
    /\ logger = InitialLogger
    /\ log_obs = NoLogCall
    /\ lookup = [op |-> "none", name |-> NoData, result |-> EmptyMap]
    /\ added = <<>>
    /\ tree2 = NoSecondTree

(***************************************************************************)
(* The DocTool around the tree: extensions with their source files, the    *)
(* change tracker, the files of the private folder.                        *)
(***************************************************************************)
Extensions == {ExtName, "search"}
SrcPaths == {"x.c", "y.c"}

TrackerFile == "change_tracker.p"
PagesFile == "pages.p"
SymbolMapsFile == "symbol_maps.p"
\* what DocTree.__init__ loads
TreeFiles == {PagesFile, SymbolMapsFile}
\* what DocTool.persist dumps, in this order
StoreFiles == <<TrackerFile, PagesFile, SymbolMapsFile>>

\* ChangeTracker.__init__, and the DocTool before __create_change_tracker
NoTracker == [loaded |-> FALSE, exts_mtimes |-> EmptyMap]
NoTrackerStore == [exists |-> FALSE, exts_mtimes |-> EmptyMap]
\* an extension that has not called get_stale_files
NoStaleFiles == [queried |-> FALSE, stale |-> {}, unlisted |-> {}]

\* a new process, or the end of one: a DocTool without tracker, extensions
\* not set up
ToolStarts ==
    /\ change_tracker' = NoTracker
    /\ set_up' = [e \in Extensions |-> "todo"]
    /\ stale_source_files' = [e \in Extensions |-> {}]
    /\ stale_files' = [e \in Extensions |-> NoStaleFiles]
    /\ UNCHANGED <<src_mtime, ext_sources, tracker_store, corrupt>>

\* no extension has sources, nothing was ever tracked or persisted
ToolInit ==
    /\ src_mtime = [f \in SrcPaths |-> 0]
    /\ ext_sources = [e \in Extensions |-> {}]
    /\ change_tracker = NoTracker
    /\ tracker_store = NoTrackerStore
    /\ set_up = [e \in Extensions |-> "todo"]
    /\ stale_source_files = [e \in Extensions |-> {}]
    /\ stale_files = [e \in Extensions |-> NoStaleFiles]
    /\ corrupt = {}

(***************************************************************************)
(* The file system: the sources are written between two runs and while a   *)
(* run goes on.                                                            *)
(***************************************************************************)
\* no DocTree is running: before the first run, after persist, after a crash
BetweenRuns == {"idle", "load_crashed", "build_crashed", "setup_crashed",
                "resolve_crashed", "persist_crashed"}

\* a write to the sources leaves the store and the process alone
FsFrame ==
    UNCHANGED <<runs, phase, store, treeVars, failure, walker, extraVars, before,
                touch_only, toolVars>>

\* the phases in which build_tree has returned and the process goes on
AfterBuild == {"built", "resolved"}

\* no file was written since build_tree returned
NoLate == [touched |-> {}, changed |-> {}]

\* the files of S are written, those of C with new contents: when build_tree
\* has returned, the run has not read what they hold now
LateWith(S, C) ==
    IF phase \in AfterBuild
    THEN [touched |-> late.touched \cup S, changed |-> late.changed \cup C]
    ELSE late

\* open(path, 'w') and a write: the file exists from then on, with the new
\* contents and a new mtime
WriteFile(p, syms, links) ==
    /\ edits < MaxEdits
    /\ fs' = [fs EXCEPT ![p] = [exists |-> TRUE, syms |-> syms,
                                links |-> links, mtime |-> fs[p].mtime + 1]]
    /\ edits' = edits + 1
    /\ touched' = touched \cup {p}
    /\ changed' = IF fs[p].exists /\ syms = fs[p].syms /\ links = fs[p].links
                  THEN changed ELSE changed \cup {p}
    /\ late' = LateWith({p}, IF fs[p].exists /\ syms = fs[p].syms
                                  /\ links = fs[p].links
                              THEN {} ELSE {p})
    /\ FsFrame

\* a link is added at the end of file p
AddLink(p, d) ==
    /\ Len(fs[p].links) < MaxLinks
    /\ WriteFile(p, fs[p].syms, Append(fs[p].links, d))

\* the i-th link of file p is removed
RemoveLink(p, i) ==
    /\ i \in 1..Len(fs[p].links)
    /\ WriteFile(p, fs[p].syms,
                 SubSeq(fs[p].links, 1, i - 1)
                    \o SubSeq(fs[p].links, i + 1, Len(fs[p].links)))

\* a symbol is listed at the end of file p
AddSym(p, n) ==
    /\ Len(fs[p].syms) < MaxSyms
    /\ WriteFile(p, Append(fs[p].syms, n), fs[p].links)

\* the last symbol listed in file p is removed
RemoveSym(p) ==
    /\ fs[p].syms # <<>>
    /\ WriteFile(p, SubSeq(fs[p].syms, 1, Len(fs[p].syms) - 1), fs[p].links)

\* the last symbol listed in file p is moved to the end of file q
MoveSym(p, q) ==
    /\ edits < MaxEdits
    /\ p # q
    /\ fs[p].exists
    /\ fs[p].syms # <<>>
    /\ Len(fs[q].syms) < MaxSyms
    /\ fs' = [fs EXCEPT
                ![p].syms = SubSeq(@, 1, Len(@) - 1),
                ![p].mtime = @ + 1,
                ![q].exists = TRUE,
                ![q].syms = Append(@, fs[p].syms[Len(fs[p].syms)]),
                ![q].mtime = @ + 1]
    /\ edits' = edits + 1
    /\ touched' = touched \cup {p, q}
    /\ changed' = changed \cup {p, q}
    /\ late' = LateWith({p, q}, {p, q})
    /\ FsFrame

\* touch: the mtime changes, the contents do not; a missing file is created
\* empty
TouchFile(p) ==
    WriteFile(p, fs[p].syms, fs[p].links)

\* file p is removed, and its contents with it
DeleteFile(p) ==
    /\ edits < MaxEdits
    /\ fs[p].exists
    /\ fs' = [fs EXCEPT ![p] = [exists |-> FALSE, syms |-> <<>>,
                                links |-> <<>>, mtime |-> fs[p].mtime]]
    /\ edits' = edits + 1
    /\ touched' = touched \cup {p}
    /\ changed' = changed \cup {p}
    /\ late' = LateWith({p}, {p})
    /\ FsFrame

(***************************************************************************)
(* The operations of a run.                                                *)
(***************************************************************************)
NoSymbolMaps == [k \in Keys |-> EmptyMap]
NoPreviousSymbolMaps == [k \in Keys |-> {}]

\* the process ends: its objects are gone, the files and the store remain
ProcessEnds ==
    /\ heap' = <<>>
    /\ pages' = EmptyMap
    /\ symbol_maps' = NoSymbolMaps
    /\ previous_symbol_maps' = NoPreviousSymbolMaps
    /\ seen_pages' = {}
    /\ connected' = FALSE
    /\ root' = NonePage
    /\ incremental' = FALSE
    /\ moved_symbols' = {}

\* the process ends without a persist: the store is the one the history is
\* about, and what this run left unread is of no account
HistoryAtEnd ==
    /\ late' = NoLate
    /\ UNCHANGED <<touched, changed, before, touch_only>>

\* of the files of S, written since build_tree returned, those the page of
\* the page map was not parsed from since (a lazy reparse reads the file
\* again and records its mtime)
Unread(S) ==
    {p \in S : ~(/\ p \in DOMAIN pages
                 /\ fs[p].exists
                 /\ heap[pages[p]].mtime = fs[p].mtime)}

\* the fields of a page that persistence is meant to keep, and its staleness
Observed(page) ==
    [source_file    |-> page.source_file,
     symbol_names   |-> page.symbol_names,
     subpages       |-> page.subpages,
     extension_name |-> page.extension_name,
     is_stale       |-> page.is_stale]

\* pickle.load(symbol_maps.p), as the lookups of the run see it: the Symbol
\* objects that are keys of the loaded map are objects of their own, equal to
\* no object of the loaded pages or of the session, so that the entry of an
\* object is never found and the entry of a name is
UnpickledSymbolMaps ==
    [k \in Keys |-> IF k \in Names THEN store.symbol_maps[k] ELSE {}]

\* DocTree.__init__: load pages.p and symbol_maps.p, or start empty
Load ==
    /\ phase \in BetweenRuns
    /\ runs < MaxRuns
    /\ corrupt \cap TreeFiles = {}
    /\ runs' = runs + 1
    /\ phase' = "loaded"
    /\ LET order == InOrder(DOMAIN store.pages)
       IN  /\ heap' = [i \in 1..Len(order) |-> SetState(store.pages[order[i]])]
           /\ pages' = [p \in DOMAIN store.pages |->
                          CHOOSE i \in 1..Len(order) : order[i] = p]
    /\ previous_symbol_maps' = UnpickledSymbolMaps
    /\ symbol_maps' = NoSymbolMaps
    /\ seen_pages' = {}
    /\ connected' = FALSE
    /\ root' = NonePage
    /\ moved_symbols' = {}
    /\ incremental' \in (IF store.exists THEN BOOLEAN ELSE {FALSE})
    /\ failure' = NoFailure
    /\ ToolStarts
    /\ UNCHANGED <<fs, edits, store, walker, extraVars, historyVars>>

\* DocTree.build_tree(index_file)
BuildTree ==
    /\ phase = "loaded"
    /\ LET t1 == DoBuildTree(TreeState, IndexFile, NoExt, 0, connected)
           u  == UpdateSymbolMaps(t1)
       IN  IF Failed(t1)
           THEN /\ phase' = "build_crashed"
                /\ failure' = t1.failure
                /\ ProcessEnds
           ELSE /\ phase' = "built"
                /\ failure' = NoFailure
                /\ heap' = u.t.heap
                /\ pages' = u.t.pages
                /\ symbol_maps' = u.t.symbol_maps
                /\ seen_pages' = u.t.seen
                /\ connected' = TRUE
                /\ root' = u.t.pages[IndexFile]
                /\ moved_symbols' = u.moved
                /\ UNCHANGED <<previous_symbol_maps, incremental>>
    /\ UNCHANGED <<fs, edits, runs, store, walker, extraVars, historyVars, toolVars>>

\* pickle.dump(self.pages): every page through __getstate__
PickledPages == [p \in DOMAIN pages |-> GetState(heap[pages[p]])]

\* pickle.dump(self.__symbol_maps)
PickledSymbolMaps == [k \in Keys |-> DOMAIN symbol_maps[k]]

\* DocTree.persist, and the end of the process
Persist ==
    /\ phase \in {"built", "resolved"}
    /\ phase' = "idle"
    /\ store' = [exists |-> TRUE,
                 pages |-> PickledPages,
                 symbol_maps |-> PickledSymbolMaps]
    /\ before' = [p \in DOMAIN pages |-> Observed(heap[pages[p]])]
    /\ touch_only' = (/\ store.exists /\ touched = {IndexFile}
                      /\ changed = {} /\ late = NoLate)
    /\ touched' = Unread(late.touched)
    /\ changed' = Unread(late.changed)
    /\ late' = NoLate
    /\ ProcessEnds
    /\ UNCHANGED <<fs, edits, runs, failure, walker, extraVars, toolVars>>

(***************************************************************************)
(* Symbol resolution.  The symbol store and the extensions are inputs of   *)
(* the run: `known` is the set of names get_symbol finds a Symbol for, and *)
(* `hook` gives, for a symbol, the symbols the handlers of                 *)
(* resolving_symbol_signal return for it (looked at for known names and    *)
(* for the symbols the handlers themselves return).                        *)
(***************************************************************************)
\* number of symbols a handler returns for one symbol
MaxExtra == 1

\* the handlers of the extra-symbols signal, one list of names per name;
\* handlers that return something for t only are those that return it for s
\* only with the two names exchanged, and are left out
Hooks == {h \in [Names -> BoundedSeq(Names, MaxExtra)] :
             h["s"] = <<>> => h["t"] = <<>>}

RECURSIVE QueryExtraSymbols(_, _, _, _, _)
RECURSIVE QueryExtraSymbolsLoop(_, _, _, _, _, _)

\* Page.__query_extra_symbols(sym, new_syms) for the Symbol of `name`:
\* __resolve_symbol, then the symbols of the handlers, each queried in turn
QueryExtraSymbols(r, id, name, hook, depth) ==
    IF depth > MaxDepth THEN [r EXCEPT !.t.failure = ExpansionRecursion]
    ELSE LET r1 == [r EXCEPT !.t.heap[id].symbols =
                                Append(@, SymbolObject(name))]
         IN  QueryExtraSymbolsLoop(r1, id, hook[name], 1, hook, depth)

\* the loop of __query_extra_symbols over new_symbols
QueryExtraSymbolsLoop(r, id, new_symbols, i, hook, depth) ==
    IF Failed(r.t) \/ i > Len(new_symbols) THEN r
    ELSE QueryExtraSymbolsLoop(
            QueryExtraSymbols(
                [r EXCEPT !.new_syms = Append(@, new_symbols[i])],
                id, new_symbols[i], hook, depth + 1),
            id, new_symbols, i + 1, hook, depth)

RECURSIVE ResolveNames(_, _, _, _, _, _)
\* the first loop of Page.resolve_symbols: get_symbol, __query_extra_symbols
ResolveNames(r, id, names, i, known, hook) ==
    IF Failed(r.t) \/ i > Len(names) THEN r
    ELSE ResolveNames(
            IF names[i] \in known
            THEN QueryExtraSymbols(r, id, names[i], hook, 0)
            ELSE r,
            id, names, i + 1, known, hook)

\* the Symbol objects of new_syms, as add_symbol receives them
NewSymbolObjects(new_syms) ==
    [i \in 1..Len(new_syms) |-> SymbolObject(new_syms[i])]

\* Page.resolve_symbols that marks the page as up to date once its symbols
\* are resolved: a plausible slip
PageResolveSymbolsFreshens(t, id, known, hook) ==
    LET t0 == [t EXCEPT !.heap[id].typed_symbols = TRUE]
        r == ResolveNames([t |-> t0, new_syms |-> <<>>], id,
                          t0.heap[id].symbol_names, 1, known, hook)
    IN  IF Failed(r.t) THEN r.t
        ELSE [AddSymbols(r.t, id, NewSymbolObjects(r.new_syms), 1, connected)
                 EXCEPT !.heap[id].is_stale = FALSE]

\* Page.resolve_symbols: the typed lists are set up, then the symbols queried
PageResolveSymbols(t, id, known, hook) ==
    LET t0 == [t EXCEPT !.heap[id].typed_symbols = TRUE]
        r == ResolveNames([t |-> t0, new_syms |-> <<>>], id,
                          t0.heap[id].symbol_names, 1, known, hook)
    IN  IF Failed(r.t) THEN r.t
        ELSE AddSymbols(r.t, id, NewSymbolObjects(r.new_syms), 1, connected)

RECURSIVE ResolveSymbols(_, _, _, _, _)
RECURSIVE ResolveSubpages(_, _, _, _, _, _)

\* the lazy reparse of DocTree.resolve_symbols: t.ret is the page to resolve
Reparse(t, id) ==
    IF t.heap[id].mtime # NoMtime /\ ~t.heap[id].ast
    THEN LET t1 == Parse(t, t.heap[id].source_file,
                         t.heap[id].extension_name, connected)
         IN  [t1 EXCEPT !.pages = MapSet(@, t.heap[id].source_file, t1.ret),
                        !.failure = IF t1.ret = NonePage THEN NoPageError
                                    ELSE NoFailure]
    ELSE [t EXCEPT !.ret = id]

\* resolve_symbols that visits the subpages of stale pages only: a plausible
\* slip
ResolveSymbolsStaleOnly(t, id, known, hook, depth) ==
    IF depth > MaxDepth THEN [t EXCEPT !.failure = ResolveRecursion]
    ELSE IF ~t.heap[id].is_stale THEN [t EXCEPT !.ret = id]
    ELSE LET t1 == Reparse(t, id)
             t2 == IF ~Failed(t1)
                   THEN PageResolveSymbols(t1, t1.ret, known, hook)
                   ELSE t1
         IN  IF Failed(t2) THEN t2
             ELSE ResolveSubpages(t2, t2.heap[t1.ret].subpages, 1,
                                  known, hook, depth)

\* resolve_symbols that resolves the symbols of every page it visits, stale
\* or not: a plausible slip
ResolveSymbolsAlways(t, id, known, hook, depth) ==
    IF depth > MaxDepth THEN [t EXCEPT !.failure = ResolveRecursion]
    ELSE LET t1 == IF t.heap[id].is_stale THEN Reparse(t, id)
                   ELSE [t EXCEPT !.ret = id]
             t2 == IF ~Failed(t1)
                   THEN PageResolveSymbols(t1, t1.ret, known, hook)
                   ELSE t1
         IN  IF Failed(t2) THEN t2
             ELSE ResolveSubpages(t2, t2.heap[t1.ret].subpages, 1,
                                  known, hook, depth)

\* DocTree.resolve_symbols(doc_tool, page)
ResolveSymbols(t, id, known, hook, depth) ==
    IF depth > MaxDepth THEN [t EXCEPT !.failure = ResolveRecursion]
    ELSE LET t1 == IF t.heap[id].is_stale THEN Reparse(t, id)
                   ELSE [t EXCEPT !.ret = id]
             t2 == IF t.heap[id].is_stale /\ ~Failed(t1)
                   THEN PageResolveSymbols(t1, t1.ret, known, hook)
                   ELSE t1
         IN  IF Failed(t2) THEN t2
             ELSE ResolveSubpages(t2, t2.heap[t1.ret].subpages, 1,
                                  known, hook, depth)

\* resolve_symbols that stops at the page it is given: a plausible slip
ResolveSubpagesSkipped(t, items, i, known, hook, depth) == t

\* the loop of DocTree.resolve_symbols over page.subpages
ResolveSubpages(t, items, i, known, hook, depth) ==
    IF Failed(t) \/ i > Len(items) THEN t
    ELSE IF items[i].path \notin DOMAIN t.pages
         THEN [t EXCEPT !.failure = KeyError]
         ELSE ResolveSubpages(
                ResolveSymbols(t, t.pages[items[i].path], known, hook,
                               depth + 1),
                items, i + 1, known, hook, depth)

\* DocTree.resolve_symbols(doc_tool, root)
Resolve(known, hook) ==
    /\ phase = "built"
    /\ LET t1 == ResolveSymbols(TreeState, root, known, hook, 0)
       IN  IF Failed(t1)
           THEN /\ phase' = "resolve_crashed"
                /\ failure' = t1.failure
                /\ ProcessEnds
                /\ HistoryAtEnd
           ELSE /\ phase' = "resolved"
                /\ failure' = NoFailure
                /\ heap' = t1.heap
                /\ pages' = t1.pages
                /\ symbol_maps' = t1.symbol_maps
                /\ seen_pages' = t1.seen
                /\ UNCHANGED <<previous_symbol_maps, connected, root,
                               incremental, moved_symbols, historyVars>>
    /\ UNCHANGED <<fs, edits, runs, store, walker, extraVars, toolVars>>

(***************************************************************************)
(* Notifications of the symbol store.                                      *)
(***************************************************************************)
\* __stale_symbol_pages marking every page: a plausible slip
StaleAllPages(h, symbol_name) ==
    [i \in 1..Len(h) |-> [h[i] EXCEPT !.is_stale = TRUE]]

\* DocTree.__stale_symbol_pages
StaleSymbolPages(h, symbol_name) ==
    LET ids == {symbol_maps[symbol_name][p] : p \in DOMAIN symbol_maps[symbol_name]}
    IN  [i \in 1..Len(h) |->
            IF i \in ids THEN [h[i] EXCEPT !.is_stale = TRUE] ELSE h[i]]

\* DocTree.__comment_updated, for a comment named `name`
CommentUpdated(name) ==
    /\ phase \in {"loaded", "built", "resolved"}
    /\ heap' = StaleSymbolPages(heap, name)
    /\ UNCHANGED <<fs, edits, runs, phase, store, pages, symbol_maps,
                   previous_symbol_maps, seen_pages, connected, root,
                   incremental, moved_symbols, failure, walker, extraVars, historyVars,
                   toolVars>>

\* DocTree.__symbol_updated, for a symbol whose unique_name is `name`
SymbolUpdated(name) ==
    /\ phase \in {"loaded", "built", "resolved"}
    /\ heap' = StaleSymbolPages(heap, name)
    /\ UNCHANGED <<fs, edits, runs, phase, store, pages, symbol_maps,
                   previous_symbol_maps, seen_pages, connected, root,
                   incremental, moved_symbols, failure, walker, extraVars, historyVars,
                   toolVars>>

\* a caller's view of the tree's interface: the same notifications, seen
\* from the symbol store that emits them
UpdateKinds == {"comment_updated", "symbol_updated"}

\* DocTree.__comment_updated or __symbol_updated for `name`, as its emitter
\* sees it: nothing is returned
UpdateNotified(kind, name) ==
    /\ phase \in {"loaded", "built", "resolved"}
    /\ heap' = StaleSymbolPages(heap, name)
    /\ lookup' = [op |-> kind, name |-> name, result |-> EmptyMap]
    /\ UNCHANGED <<fs, edits, runs, phase, store, pages, symbol_maps,
                   previous_symbol_maps, seen_pages, connected, root,
                   incremental, moved_symbols, failure, walker, logger,
                   log_obs, added, tree2, historyVars, toolVars>>

\* DocTree.get_pages_for_symbol(unique_name): the pages recorded for the
\* name, by source file (a name never recorded gets an empty entry)
GetPagesForSymbol(unique_name) ==
    /\ phase \in {"loaded", "built", "resolved"}
    /\ lookup' = [op |-> "get_pages_for_symbol", name |-> unique_name,
                  result |-> symbol_maps[unique_name]]
    /\ UNCHANGED <<fs, edits, runs, phase, store, treeVars, failure, walker,
                   logger, log_obs, added, tree2, historyVars, toolVars>>

(***************************************************************************)
(* The specification.                                                      *)
(***************************************************************************)
\* no run yet, nothing persisted
NoRunYet ==
    /\ edits = 0
    /\ runs = 0
    /\ phase = "idle"
    /\ store = [exists |-> FALSE, pages |-> EmptyMap,
                symbol_maps |-> NoPreviousSymbolMaps]
    /\ heap = <<>>
    /\ pages = EmptyMap
    /\ symbol_maps = NoSymbolMaps
    /\ previous_symbol_maps = NoPreviousSymbolMaps
    /\ seen_pages = {}
    /\ connected = FALSE
    /\ root = NonePage
    /\ incremental = FALSE
    /\ moved_symbols = {}
    /\ failure = NoFailure
    /\ walker = NoWalk
    /\ touched = {}
    /\ changed = {}
    /\ before = EmptyMap
    /\ touch_only = FALSE
    /\ late = NoLate

\* every file exists, the index holds the links l, nothing else is written
FirstSources(l) ==
    [p \in Paths |->
        [exists |-> TRUE, syms |-> <<>>,
         links |-> IF p = IndexFile THEN l ELSE <<>>, mtime |-> 0]]

\* the sources as first written, no run yet, nothing persisted
TreeInit ==
    /\ \E l \in BoundedSeq(Dests, MaxInitLinks) : fs = FirstSources(l)
    /\ NoRunYet

Init ==
    /\ TreeInit
    /\ ToolInit
    /\ ExtraInit

Next ==
    \/ \E p \in Paths, d \in Dests : AddLink(p, d)
    \/ \E p \in Paths, i \in 1..MaxLinks : RemoveLink(p, i)
    \/ \E p \in Paths, n \in Names : AddSym(p, n)
    \/ \E p \in Paths : RemoveSym(p)
    \/ \E p \in Paths, q \in Paths : MoveSym(p, q)
    \/ \E p \in Paths : TouchFile(p)
    \/ \E p \in Paths : DeleteFile(p)
    \/ Load
    \/ BuildTree
    \/ \E known \in SUBSET Names, hook \in Hooks : Resolve(known, hook)
    \/ \E name \in Names : CommentUpdated(name)
    \/ \E name \in Names : SymbolUpdated(name)
    \/ Persist

Spec == Init /\ [][Next]_vars

(***************************************************************************)
(* The page hierarchy: the page map, and the pages below the root.         *)
(***************************************************************************)
\* the page of the page map for source file p
PageOf(p) == heap[pages[p]]

\* the source files page p names as subpages and the page map holds
Children(p) == DictKeys(PageOf(p).subpages) \cap DOMAIN pages

RECURSIVE Closure(_)
\* the source files reachable from those of S through subpages
Closure(S) ==
    LET N == S \cup UNION {Children(p) : p \in S}
    IN  IF N = S THEN S ELSE Closure(N)

RECURSIVE Below(_)
\* the pages of S and those reached from them, each page leading to the
\* pages the page map holds for its subpages
Below(S) ==
    LET N == S \cup UNION {{pages[q] : q \in DictKeys(heap[i].subpages)
                                              \cap DOMAIN pages} : i \in S}
    IN  IF N = S THEN S ELSE Below(N)

\* the pages of the current hierarchy, those DocTree.walk yields: the root
\* object, and below it the pages of the page map
TreePages == IF root = NonePage THEN {} ELSE Below({root}) \ {NonePage}

\* the source files of the current hierarchy
TreePaths == {heap[i].source_file : i \in TreePages}

\* no page of the page map is reachable from itself through subpages
Acyclic == \A p \in DOMAIN pages : p \notin Closure(Children(p))

\* the names of a page's symbol_names
NamesOf(page) == Range(page.symbol_names)

\* the pages the dependency map records for a name
Recorded(name) == {symbol_maps[name][p] : p \in DOMAIN symbol_maps[name]}

(***************************************************************************)
(* C1.  Idempotence: when build_tree is run on a tree that was persisted   *)
(* and reloaded, with no source file written since the persist, no page of *)
(* the page map is stale after the run.                                    *)
(***************************************************************************)
C1_Idempotence ==
    [][(BuildTree /\ store.exists /\ touched = {})
        => /\ phase' = "built"
           /\ \A p \in DOMAIN pages' : ~heap'[pages'[p]].is_stale]_vars

(***************************************************************************)
(* C2.  Symbol migration invalidation: if symbol S was in the symbol_names *)
(* of page A when the tree was last persisted, and since then S was taken  *)
(* off A's source and is listed by B's source, then after build_tree, for  *)
(* A and B pages of the hierarchy, A is stale, S is no longer in           *)
(* A.symbol_names and S is in B.symbol_names.                              *)
(***************************************************************************)
\* S was on page A in the persisted run and its source listed it in B when
\* build_tree read the sources
Migrated(S, A, B) ==
    /\ A # B
    /\ {A, B} \cap late.touched = {}
    /\ A \in DOMAIN before /\ S \in NamesOf(before[A])
    /\ fs[A].exists /\ S \notin Range(fs[A].syms)
    /\ fs[B].exists /\ S \in Range(fs[B].syms)

C2_SymbolMigration ==
    phase \in AfterBuild =>
        \A a \in TreePages, b \in TreePages, S \in Names :
            Migrated(S, heap[a].source_file, heap[b].source_file) =>
                /\ heap[a].is_stale
                /\ S \notin NamesOf(heap[a])
                /\ S \in NamesOf(heap[b])

\* run 2 has reconciled a tree in which a symbol went from one page to another
C2_Witness ==
    /\ phase = "built"
    /\ \E A \in TreePaths, B \in TreePaths, S \in Names :
          /\ Migrated(S, A, B)
          /\ S \notin NamesOf(before[B])
          /\ changed = {A, B}

(***************************************************************************)
(* C3.  Unlisted removal: a page that was in the page map when the tree    *)
(* was persisted and that the hierarchy of the next run no longer lists is *)
(* absent from the page map after that run, and every symbol it owned is   *)
(* in the set the run emits unless a page of the hierarchy declares it.    *)
(***************************************************************************)
C3_UnlistedRemoval ==
    (phase = "built" /\ store.exists) =>
        \A p \in DOMAIN before \ TreePaths :
            /\ p \notin DOMAIN pages
            /\ \A S \in NamesOf(before[p]) :
                  \/ S \in moved_symbols
                  \/ \E q \in TreePaths : S \in NamesOf(PageOf(q))

(***************************************************************************)
(* C4.  When comment_updated or symbol_updated is emitted for a name,      *)
(* every page the dependency map records for that name becomes stale, and  *)
(* the staleness of every other page is unchanged.                         *)
(***************************************************************************)
C4_NotificationStalesRecordedPages ==
    [][\A name \in Names :
          (CommentUpdated(name) \/ SymbolUpdated(name)) =>
              /\ Len(heap') = Len(heap)
              /\ \A id \in 1..Len(heap) :
                    heap'[id].is_stale =
                        (heap[id].is_stale \/ id \in Recorded(name))]_vars

\* a notification has made a reused page stale and left another page fresh
C4_Witness ==
    /\ phase = "built"
    /\ \E name \in Names, id \in 1..Len(heap), other \in 1..Len(heap) :
          /\ id \in Recorded(name)
          /\ heap[id].is_stale /\ ~heap[id].ast
          /\ other \notin Recorded(name)
          /\ ~heap[other].is_stale

(***************************************************************************)
(* C5.  In every reachable state each symbol name is mapped by the         *)
(* dependency map to at most one owning page.                              *)
(***************************************************************************)
C5_AtMostOneOwner ==
    \A k \in Keys : Cardinality(DOMAIN symbol_maps[k]) <= 1

(***************************************************************************)
(* C6.  After a persisted run, changing only the modification time of the  *)
(* index file makes the next build_tree reparse it: the root page is stale *)
(* and its symbol_names are those it had before; after persisting and      *)
(* building once more without touching the file, the root is not stale.    *)
(***************************************************************************)
C6_TouchedIndex ==
    [][BuildTree =>
        /\ (store.exists /\ touched = {IndexFile} /\ changed = {}) =>
              /\ phase' = "built"
              /\ heap'[root'].is_stale
              /\ NamesOf(heap'[root']) = NamesOf(before[IndexFile])
        /\ (touch_only /\ touched = {}) =>
              /\ phase' = "built"
              /\ ~heap'[root'].is_stale]_vars

(***************************************************************************)
(* C7.  Round-trip persistence: persist() followed by loading yields, for  *)
(* every page of the page map, the same source file, subpages (same        *)
(* order), symbol_names (same order) and extension_name, and is_stale      *)
(* false whatever the staleness was before persisting.                     *)
(***************************************************************************)
C7_RoundTrip ==
    (phase = "loaded" /\ store.exists) =>
        /\ DOMAIN pages = DOMAIN before
        /\ \A p \in DOMAIN pages :
              /\ PageOf(p).source_file = before[p].source_file
              /\ PageOf(p).subpages = before[p].subpages
              /\ PageOf(p).symbol_names = before[p].symbol_names
              /\ PageOf(p).extension_name = before[p].extension_name
              /\ PageOf(p).is_stale = FALSE

\* a tree was loaded whose pages were persisted stale, with names and subpages
C7_Witness ==
    /\ phase = "loaded"
    /\ store.exists
    /\ \E p \in DOMAIN pages, q \in DOMAIN pages :
          /\ before[p].is_stale /\ ~before[q].is_stale
          /\ PageOf(p).symbol_names # <<>>
          /\ PageOf(p).subpages # <<>>

(***************************************************************************)
(* C9.  After reconciliation of any set of source pages, including pages   *)
(* whose heading links point at each other or at an ancestor, no page is   *)
(* reachable from itself through subpages, and neither build_tree nor      *)
(* resolve_symbols runs into unbounded recursion.                          *)
(***************************************************************************)
C9_AcyclicAndTerminating ==
    /\ failure \notin {BuildRecursion, ResolveRecursion}
    /\ phase \in {"built", "resolved"} => Acyclic

(***************************************************************************)
(* C10.  Symbol resolution of a page terminates without crashing even when *)
(* the expansion hook is cyclic: no resolution ends in unbounded recursion *)
(* through the symbols the hook returns.                                   *)
(***************************************************************************)
C10_CyclicHookTerminates ==
    failure # ExpansionRecursion

(***************************************************************************)
(* DocTree.walk, over page maps as build_tree leaves them: every subpage   *)
(* is a key of the page map and no page reaches itself.  The pages of this *)
(* specification are R, X, Y and Z, and R is the root.                     *)
(***************************************************************************)
\* number of subpages of one page
MaxWalkSubpages == 2

WalkRoot == "R"
WalkOrder == <<"R", "X", "Y", "Z">>
WalkPaths == Range(WalkOrder)

\* sequences over S of length at most n that hold no element twice
DistinctSeq(S, n) ==
    {s \in BoundedSeq(S, n) : \A i, j \in 1..Len(s) : s[i] = s[j] => i = j}

\* the phases in which the process holds a DocTree
TreePhases == {"loaded", "built", "resolved"}

RECURSIVE WalkResume(_, _, _)

\* a walk that yields the subpages of a page and forgets their subtrees: a
\* plausible slip
WalkResumeNoSubtree(h, pgs, frames) ==
    IF frames = <<>>
    THEN [state |-> "done", frames |-> <<>>, ret |-> NonePage,
          raised |-> NoFailure]
    ELSE LET top == frames[Len(frames)]
             items == h[top.page].subpages
         IN  IF top.i < Len(items)
             THEN LET cpage_name == items[top.i + 1].path
                  IN  IF cpage_name \notin DOMAIN pgs
                      THEN [state |-> "raised", frames |-> <<>>,
                            ret |-> NonePage, raised |-> KeyError]
                      ELSE [state |-> "running",
                            frames |-> [frames EXCEPT ![Len(frames)].i = top.i + 1],
                            ret |-> pgs[cpage_name], raised |-> NoFailure]
             ELSE WalkResume(h, pgs, SubSeq(frames, 1, Len(frames) - 1))

\* the generator of DocTree.walk resumed, up to its next yield.  A frame is a
\* generator of walk(parent=page) and its for loop over parent.subpages: the
\* page object it iterates and the number of subpages it has taken.  The
\* page of a subpage is looked up in self.pages when the loop reaches it and
\* is yielded in the frame of its parent; the generator of its own subtree
\* is entered at the next resumption, and it is there that the interpreter
\* refuses a frame beyond the recursion bound, whether the page has subpages
\* or not.  A frame that has taken no subpage is one that was never entered:
\* a frame that is left has taken them all and its parent has taken one.
WalkResume(h, pgs, frames) ==
    IF frames = <<>>
    THEN [state |-> "done", frames |-> <<>>, ret |-> NonePage,
          raised |-> NoFailure]
    ELSE LET top == frames[Len(frames)]
             items == h[top.page].subpages
         IN  IF top.i = 0 /\ Len(frames) > MaxDepth
             THEN [state |-> "raised", frames |-> <<>>,
                   ret |-> NonePage, raised |-> WalkRecursion]
             ELSE IF top.i < Len(items)
             THEN LET cpage_name == items[top.i + 1].path
                  IN  IF cpage_name \notin DOMAIN pgs
                      THEN [state |-> "raised", frames |-> <<>>,
                            ret |-> NonePage, raised |-> KeyError]
                      ELSE [state |-> "running",
                            frames |-> Append(
                                [frames EXCEPT ![Len(frames)].i = top.i + 1],
                                [page |-> pgs[cpage_name], i |-> 0]),
                            ret |-> pgs[cpage_name], raised |-> NoFailure]
             ELSE WalkResume(h, pgs, SubSeq(frames, 1, Len(frames) - 1))

\* the walk leaves the tree and the sources alone
WalkFrame ==
    UNCHANGED <<fs, edits, runs, phase, store, treeVars, failure, historyVars,
                toolVars, extraVars>>

\* doc_tree.walk() and the first next() on it: the generator yields the root
\* (None before build_tree) and is suspended there
WalkStart ==
    /\ phase \in TreePhases
    /\ walker' = [state |-> "started", yielded |-> <<root>>, frames |-> <<>>,
                  raised |-> NoFailure, pages |-> pages, run |-> runs]
    /\ WalkFrame

\* next() on the suspended generator: it runs up to its next yield, to its
\* end, or to the exception that leaves it
WalkNext ==
    /\ phase \in TreePhases
    /\ walker.run = runs
    /\ walker.state \in {"started", "running"}
    /\ LET r == IF walker.state = "running"
                THEN WalkResume(heap, pages, walker.frames)
                ELSE IF root = NonePage
                THEN [state |-> "raised", frames |-> <<>>, ret |-> NonePage,
                      raised |-> NoRootError]
                ELSE WalkResume(heap, pages, <<[page |-> root, i |-> 0]>>)
       IN  walker' = [walker EXCEPT
                        !.state = r.state,
                        !.frames = r.frames,
                        !.raised = r.raised,
                        !.yielded = IF r.state = "running"
                                    THEN Append(@, r.ret) ELSE @]
    /\ WalkFrame

\* a page of the walker trees
WalkPage(source_file, subpages) ==
    [source_file    |-> source_file,
     symbol_names   |-> <<>>,
     subpages       |-> [i \in 1..Len(subpages) |->
                            [path |-> subpages[i], ext |-> NoExt]],
     extension_name |-> NoExt,
     is_stale       |-> TRUE,
     ast            |-> TRUE,
     typed_symbols  |-> FALSE,
     symbols        |-> <<>>,
     mtime          |-> 0]

\* a tree of R, X, Y and Z as build_tree left it, in the last run of the
\* behaviour
WalkTrees ==
    /\ \E g \in [WalkPaths ->
                    DistinctSeq(WalkPaths \ {WalkRoot}, MaxWalkSubpages)] :
          heap = [i \in 1..Len(WalkOrder) |->
                    WalkPage(WalkOrder[i], g[WalkOrder[i]])]
    /\ pages = [p \in WalkPaths |->
                  CHOOSE i \in 1..Len(WalkOrder) : WalkOrder[i] = p]
    /\ Acyclic
    /\ root = pages[WalkRoot]
    /\ phase = "built"
    /\ fs = [p \in Paths |->
                [exists |-> FALSE, syms |-> <<>>, links |-> <<>>, mtime |-> 0]]
    /\ edits = 0
    /\ runs = MaxRuns
    /\ store = [exists |-> FALSE, pages |-> EmptyMap,
                symbol_maps |-> NoPreviousSymbolMaps]
    /\ symbol_maps = NoSymbolMaps
    /\ previous_symbol_maps = NoPreviousSymbolMaps
    /\ seen_pages = WalkPaths \ {WalkRoot}
    /\ connected = TRUE
    /\ incremental = FALSE
    /\ moved_symbols = {}
    /\ failure = NoFailure
    /\ walker = NoWalk
    /\ touched = {}
    /\ changed = {}
    /\ before = EmptyMap
    /\ touch_only = FALSE
    /\ late = NoLate

\* sources in which every file lists symbol "s" and the index links to a,
\* and to the generated page or not; no run yet
WalkSources ==
    /\ \E l \in {<<"a">>, <<"a", WellKnownName>>} :
          fs = [p \in Paths |-> [FirstSources(l)[p] EXCEPT !.syms = <<"s">>]]
    /\ NoRunYet

InitWalk ==
    /\ WalkTrees \/ WalkSources
    /\ ToolInit
    /\ ExtraInit

\* the walk, in runs whose pages are reloaded, made stale by the symbol
\* store and reparsed by the resolution while the generator is suspended
NextWalk ==
    \/ WalkStart
    \/ WalkNext
    \/ Load
    \/ BuildTree
    \/ CommentUpdated("s")
    \/ Resolve({}, [n \in Names |-> <<>>])
    \/ Persist

SpecWalk == InitWalk /\ [][NextWalk]_vars

(***************************************************************************)
(* C8.  walk() yields pages in pre-order: the root first, then for each    *)
(* subpage in declared order that subpage followed by its whole subtree;   *)
(* for root R with subpages [X, Y] where X has subpage [Z] it yields       *)
(* exactly [R, X, Z, Y], each page once.  (Checked of the walks of a built *)
(* tree that ran to their end with the page map as it was when they        *)
(* started.)                                                               *)
(***************************************************************************)
RECURSIVE SubtreeSize(_)
RECURSIVE SubtreesSize(_, _)
\* number of pages of the subtree of page id, that page included
SubtreeSize(id) == 1 + SubtreesSize(heap[id].subpages, Len(heap[id].subpages))

\* number of pages of the subtrees of the first n subpages of items
SubtreesSize(items, n) ==
    IF n = 0 THEN 0
    ELSE SubtreesSize(items, n - 1) + SubtreeSize(pages[items[n].path])

\* the source files of a sequence of pages
SourceFiles(ids) == [i \in 1..Len(ids) |-> heap[ids[i]].source_file]

\* the tree of the example: R lists X then Y, X lists Z
ExampleTree ==
    /\ DOMAIN pages = WalkPaths
    /\ SourceFiles(<<root>>) = <<"R">>
    /\ DictKeys(heap[pages["R"]].subpages) = {"X", "Y"}
    /\ heap[pages["R"]].subpages[1].path = "X"
    /\ DictKeys(heap[pages["X"]].subpages) = {"Z"}
    /\ heap[pages["Y"]].subpages = <<>>
    /\ heap[pages["Z"]].subpages = <<>>

\* a walk of the built tree ran to its end, and no page of the page map was
\* replaced since it started
Walked ==
    /\ phase \in TreePhases
    /\ walker.run = runs
    /\ walker.state = "done"
    /\ walker.pages = pages
    /\ walker.yielded[1] # NonePage

C8_WalkPreOrder ==
    Walked =>
        LET walked == walker.yielded
        IN  /\ walked[1] = root
            /\ Len(walked) = SubtreeSize(root)
            /\ \A i \in 1..Len(walked) :
                  LET items == heap[walked[i]].subpages
                  IN  \A j \in 1..Len(items) :
                         walked[i + 1 + SubtreesSize(items, j - 1)]
                            = pages[items[j].path]
            /\ ExampleTree =>
                  /\ SourceFiles(walked) = <<"R", "X", "Z", "Y">>
                  /\ Cardinality(Range(walked)) = Len(walked)

\* the tree of the example has been walked
C8_Witness ==
    /\ Walked
    /\ ExampleTree
    /\ Len(walker.yielded) = Cardinality(WalkPaths)

(***************************************************************************)
(* The DocTool: setup (parse_config: DocTree, build_tree, the change       *)
(* tracker; then every extension, then symbol resolution) and persist.     *)
(* As the program stands parse_config never returns: the call that follows *)
(* build_tree raises.  The statements past that call, the ChangeTracker    *)
(* and DocTool.persist are modelled as they run when a caller that has     *)
(* constructed and built the tree makes them one by one.                   *)
(***************************************************************************)
UnpicklingError == "unpickling_error"
SetupError == "setup_error"
IOError == "io_error"
\* AttributeError: 'DocTree' object has no attribute 'fill_symbol_maps'
AttributeError == "attribute_error"
\* TypeError: resolve_symbols() takes exactly 3 arguments (2 given)
TypeError == "type_error"

\* a write to the sources of the extensions leaves the tool alone
SourceFrame ==
    UNCHANGED <<fs, runs, phase, store, treeVars, failure, walker, extraVars,
                historyVars, change_tracker, tracker_store, set_up,
                stale_source_files, stale_files, corrupt>>

\* a source file is written, between two runs or while one is going on
TouchSource(f) ==
    /\ edits < MaxEdits
    /\ edits' = edits + 1
    /\ src_mtime' = [src_mtime EXCEPT ![f] = src_mtime[f] + 1]
    /\ UNCHANGED ext_sources
    /\ SourceFrame

\* a file joins the sources of extension e
ListSource(e, f) ==
    /\ phase \in BetweenRuns
    /\ edits < MaxEdits
    /\ f \notin ext_sources[e]
    /\ edits' = edits + 1
    /\ ext_sources' = [ext_sources EXCEPT ![e] = ext_sources[e] \cup {f}]
    /\ UNCHANGED src_mtime
    /\ SourceFrame

\* a file leaves the sources of extension e
UnlistSource(e, f) ==
    /\ phase \in BetweenRuns
    /\ edits < MaxEdits
    /\ f \in ext_sources[e]
    /\ edits' = edits + 1
    /\ ext_sources' = [ext_sources EXCEPT ![e] = ext_sources[e] \ {f}]
    /\ UNCHANGED src_mtime
    /\ SourceFrame

\* DocTree.__init__ on a pages.p or symbol_maps.p that cannot be unpickled:
\* only IOError is caught
LoadFails ==
    /\ phase \in BetweenRuns
    /\ runs < MaxRuns
    /\ corrupt \cap TreeFiles # {}
    /\ runs' = runs + 1
    /\ phase' = "load_crashed"
    /\ failure' = UnpicklingError
    /\ ProcessEnds
    /\ ToolStarts
    /\ UNCHANGED <<fs, edits, store, walker, extraVars, historyVars>>

\* the tree and the DocTool are left as they are
TrackerFrame ==
    UNCHANGED <<fs, edits, runs, phase, store, heap, pages, symbol_maps,
                previous_symbol_maps, seen_pages, connected, root,
                moved_symbols, failure, walker, extraVars, historyVars, src_mtime,
                ext_sources, tracker_store, corrupt>>

\* DocTool.__create_change_tracker
CreateChangeTracker ==
    /\ phase = "built"
    /\ ~change_tracker.loaded
    /\ TrackerFile \notin corrupt
    /\ change_tracker' = [loaded |-> TRUE,
                          exts_mtimes |-> tracker_store.exts_mtimes]
    /\ incremental' = IF tracker_store.exists THEN TRUE ELSE incremental
    /\ UNCHANGED <<set_up, stale_source_files, stale_files>>
    /\ TrackerFrame

\* DocTool.__create_change_tracker on a change_tracker.p that cannot be
\* unpickled
CreateChangeTrackerFails ==
    /\ phase = "built"
    /\ ~change_tracker.loaded
    /\ TrackerFile \in corrupt
    /\ phase' = "setup_crashed"
    /\ failure' = UnpicklingError
    /\ ProcessEnds
    /\ ToolStarts
    /\ HistoryAtEnd
    /\ UNCHANGED <<fs, edits, runs, store, walker, extraVars>>

\* the stale list without the comparison of the mtimes: a plausible slip
StaleSourcesNewOnly(exts_mtimes, e) ==
    LET prev_mtimes == IF e \in DOMAIN exts_mtimes THEN exts_mtimes[e]
                       ELSE EmptyMap
    IN  {f \in ext_sources[e] : f \notin DOMAIN prev_mtimes}

\* the stale list of ChangeTracker.mark_extension_stale_sources
StaleSources(exts_mtimes, e) ==
    LET prev_mtimes == IF e \in DOMAIN exts_mtimes THEN exts_mtimes[e]
                       ELSE EmptyMap
    IN  {f \in ext_sources[e] :
            \/ f \notin DOMAIN prev_mtimes
            \/ prev_mtimes[f] # src_mtime[f]}

\* ChangeTracker.update_extension_sources_mtimes
UpdateExtensionSourcesMtimes(exts_mtimes, e) ==
    MapSet(exts_mtimes, e, [f \in ext_sources[e] |-> src_mtime[f]])

\* a query that also records the mtimes: a plausible slip
MarkAndRecordSources(exts_mtimes, e) ==
    [exts_mtimes |-> UpdateExtensionSourcesMtimes(exts_mtimes, e),
     stale       |-> StaleSources(exts_mtimes, e)]

\* ChangeTracker.mark_extension_stale_sources: what it leaves in the tracker
\* and what it hands to the extension
MarkExtensionStaleSources(exts_mtimes, e) ==
    [exts_mtimes |-> exts_mtimes,
     stale       |-> StaleSources(exts_mtimes, e)]

\* DocTool.setup, the loop: mark_extension_stale_sources(extension)
MarkStale(e) ==
    /\ phase = "built"
    /\ change_tracker.loaded
    /\ set_up[e] = "todo"
    /\ \A x \in Extensions : set_up[x] # "marked"
    /\ LET r == MarkExtensionStaleSources(change_tracker.exts_mtimes, e)
       IN  /\ change_tracker' = [change_tracker EXCEPT
                                    !.exts_mtimes = r.exts_mtimes]
           /\ stale_source_files' = [stale_source_files EXCEPT ![e] = r.stale]
    /\ set_up' = [set_up EXCEPT ![e] = "marked"]
    /\ UNCHANGED <<incremental, stale_files>>
    /\ TrackerFrame

\* get_stale_files reporting every recorded path as unlisted: a plausible slip
GetStaleFilesAllRecorded(exts_mtimes, e, current) ==
    LET prev_mtimes == IF e \in DOMAIN exts_mtimes THEN exts_mtimes[e]
                       ELSE EmptyMap
    IN  [queried  |-> TRUE,
         stale    |-> {f \in current : \/ f \notin DOMAIN prev_mtimes
                                       \/ prev_mtimes[f] # src_mtime[f]},
         unlisted |-> DOMAIN prev_mtimes]

\* get_stale_files(current): the stale paths as mark_extension_stale_sources
\* computes them, and as unlisted the recorded paths that current lacks
GetStaleFiles(exts_mtimes, e, current) ==
    LET prev_mtimes == IF e \in DOMAIN exts_mtimes THEN exts_mtimes[e]
                       ELSE EmptyMap
    IN  [queried  |-> TRUE,
         stale    |-> {f \in current : \/ f \notin DOMAIN prev_mtimes
                                       \/ prev_mtimes[f] # src_mtime[f]},
         unlisted |-> {f \in DOMAIN prev_mtimes : f \notin current}]

\* an extension, while it is set up, calls get_stale_files on its sources
QueryStaleFiles(e) ==
    /\ phase = "built"
    /\ set_up[e] = "marked"
    /\ ~stale_files[e].queried
    /\ stale_files' = [stale_files EXCEPT ![e] =
                          GetStaleFiles(change_tracker.exts_mtimes, e,
                                        ext_sources[e])]
    /\ UNCHANGED <<incremental, change_tracker, set_up, stale_source_files>>
    /\ TrackerFrame

\* DocTool.setup, the loop: extension.setup() raises
ExtensionSetupFails(e) ==
    /\ phase = "built"
    /\ set_up[e] = "marked"
    /\ phase' = "setup_crashed"
    /\ failure' = SetupError
    /\ ProcessEnds
    /\ ToolStarts
    /\ HistoryAtEnd
    /\ UNCHANGED <<fs, edits, runs, store, walker, extraVars>>

\* DocTool.setup, the loop: update_extension_sources_mtimes(extension)
UpdateMtimes(e) ==
    /\ phase = "built"
    /\ set_up[e] = "marked"
    /\ change_tracker' = [change_tracker EXCEPT !.exts_mtimes =
                             UpdateExtensionSourcesMtimes(@, e)]
    /\ set_up' = [set_up EXCEPT ![e] = "done"]
    /\ UNCHANGED <<incremental, stale_source_files, stale_files>>
    /\ TrackerFrame

\* a resolve_symbols call made once the tree is constructed, whether
\* build_tree has run or not: a plausible slip
ToolResolveUnbuilt ==
    /\ phase \in {"loaded", "built"}
    /\ phase' = "setup_crashed"
    /\ failure' = TypeError
    /\ ProcessEnds
    /\ ToolStarts
    /\ HistoryAtEnd
    /\ UNCHANGED <<fs, edits, runs, store, walker, extraVars>>

\* DocTool.setup, after the loop: self.doc_tree.resolve_symbols(self).  The
\* method of the tree takes the page to start from as well, so the call
\* raises before any page is looked at, and the exception leaves setup
ToolResolve ==
    /\ phase = "built"
    /\ change_tracker.loaded
    /\ \A e \in Extensions : set_up[e] = "done"
    /\ phase' = "setup_crashed"
    /\ failure' = TypeError
    /\ ProcessEnds
    /\ ToolStarts
    /\ HistoryAtEnd
    /\ UNCHANGED <<fs, edits, runs, store, walker, extraVars>>

\* pickle.dump(self.change_tracker)
PickledTracker == [exists |-> TRUE, exts_mtimes |-> change_tracker.exts_mtimes]

\* what the dump of one file comes to: it is written ("none"); open raises
\* IOError (the file is left as it was); the write raises IOError, for a
\* pickle larger than the buffer of the file object (the file is left cut
\* short); or the write is lost when the file object, never closed, is
\* dropped (the file is left cut short and nothing is raised)
Faults == {"none", "open", "write", "close"}

\* DocTool.persist: the three dumps in order, each into a file that is
\* opened and never closed; how[i] is what the dump of StoreFiles[i] comes
\* to.  An IOError leaves persist, and the files after that one are not
\* written; a write that is lost raises nothing, the dumps after it go on
\* (and fail in their turn when the failure lasts), and the run ends as a
\* success
ToolPersist(how) ==
    /\ phase = "built"
    /\ change_tracker.loaded
    /\ \A e \in Extensions : set_up[e] # "marked"
    /\ LET Raising == {i \in DOMAIN StoreFiles : how[i] \in {"open", "write"}}
           stop == IF Raising = {} THEN Len(StoreFiles) + 1
                   ELSE CHOOSE i \in Raising : \A k \in Raising : i <= k
           raised == Raising # {}
           Written(i) == i < stop /\ how[i] = "none"
           Cut(i) == \/ i < stop /\ how[i] = "close"
                     \/ i = stop /\ how[i] = "write"
       IN  /\ \A i \in DOMAIN StoreFiles : i > stop => how[i] = "none"
           /\ tracker_store' = IF Written(1) THEN PickledTracker
                               ELSE tracker_store
           /\ store' = [exists |-> store.exists \/ Written(2) \/ Cut(2),
                        pages |-> IF Written(2) THEN PickledPages
                                  ELSE store.pages,
                        symbol_maps |-> IF Written(3) THEN PickledSymbolMaps
                                        ELSE store.symbol_maps]
           /\ corrupt' = (corrupt \ {StoreFiles[i] : i \in {j \in DOMAIN StoreFiles : Written(j)}})
                            \cup {StoreFiles[i] : i \in {j \in DOMAIN StoreFiles : Cut(j)}}
           /\ phase' = IF raised THEN "persist_crashed" ELSE "idle"
           /\ failure' = IF raised THEN IOError ELSE NoFailure
           /\ IF Written(2)
              THEN /\ before' = [p \in DOMAIN pages |->
                                   Observed(heap[pages[p]])]
                   /\ touch_only' = (/\ store.exists /\ touched = {IndexFile}
                                      /\ changed = {} /\ late = NoLate)
                   /\ touched' = Unread(late.touched)
                   /\ changed' = Unread(late.changed)
                   /\ late' = NoLate
              ELSE HistoryAtEnd
    /\ ProcessEnds
    /\ change_tracker' = NoTracker
    /\ set_up' = [e \in Extensions |-> "todo"]
    /\ stale_source_files' = [e \in Extensions |-> {}]
    /\ stale_files' = [e \in Extensions |-> NoStaleFiles]
    /\ UNCHANGED <<fs, edits, runs, walker, extraVars, src_mtime, ext_sources>>

\* DocTool.parse_config, after build_tree: self.doc_tree.fill_symbol_maps().
\* The tree has no such method (build_tree has filled its symbol maps), the
\* call raises and the exception leaves parse_config and setup: the change
\* tracker is not created, no extension is set up, nothing is persisted
FillSymbolMaps ==
    /\ phase = "built"
    /\ ~change_tracker.loaded
    /\ phase' = "setup_crashed"
    /\ failure' = AttributeError
    /\ ProcessEnds
    /\ ToolStarts
    /\ HistoryAtEnd
    /\ UNCHANGED <<fs, edits, runs, store, walker, extraVars>>

InitTool ==
    /\ TreeInit
    /\ src_mtime = [f \in SrcPaths |-> 0]
    /\ ext_sources = [e \in Extensions |-> SrcPaths]
    /\ change_tracker = NoTracker
    /\ tracker_store = NoTrackerStore
    /\ set_up = [e \in Extensions |-> "todo"]
    /\ stale_source_files = [e \in Extensions |-> {}]
    /\ stale_files = [e \in Extensions |-> NoStaleFiles]
    /\ corrupt = {}
    /\ ExtraInit

\* DocTool.setup as the program runs it: the tree is constructed and built
\* in parse_config, and the call that follows build_tree raises
NextTool ==
    \/ \E p \in Paths : TouchFile(p)
    \/ \E f \in SrcPaths : TouchSource(f)
    \/ Load
    \/ BuildTree
    \/ FillSymbolMaps

SpecTool == InitTool /\ [][NextTool]_vars

\* the statements of parse_config and of setup past that call, and
\* DocTool.persist, made one by one on a tree that was constructed and built
\* from pages' sources that stay as they were first written
NextUnits ==
    \/ \E f \in SrcPaths : TouchSource(f)
    \/ \E e \in Extensions, f \in SrcPaths : ListSource(e, f)
    \/ \E e \in Extensions, f \in SrcPaths : UnlistSource(e, f)
    \/ Load
    \/ LoadFails
    \/ BuildTree
    \/ CreateChangeTracker
    \/ CreateChangeTrackerFails
    \/ \E e \in Extensions : MarkStale(e)
    \/ \E e \in Extensions : QueryStaleFiles(e)
    \/ \E e \in Extensions : ExtensionSetupFails(e)
    \/ \E e \in Extensions : UpdateMtimes(e)
    \/ ToolResolve
    \/ \E how \in [DOMAIN StoreFiles -> Faults] : ToolPersist(how)

SpecUnits == InitTool /\ [][NextUnits]_vars

\* setup makes its resolve_symbols call: the step on which the run is left
\* by the TypeError of that call
ResolutionStarts ==
    /\ phase # "setup_crashed"
    /\ phase' = "setup_crashed"
    /\ failure' = TypeError

HasBaseline(e, f) ==
    /\ e \in DOMAIN tracker_store.exts_mtimes
    /\ f \in DOMAIN tracker_store.exts_mtimes[e]

(***************************************************************************)
(* C12.  When mark_extension_stale_sources runs for an extension, the list *)
(* the extension receives holds exactly those of its current source files  *)
(* for which the previous run persisted no mtime under that extension, or  *)
(* persisted an mtime that differs from the one the file has at that time. *)
(***************************************************************************)
C12_StaleSources ==
    [][\A e \in Extensions :
          (set_up[e] = "todo" /\ set_up'[e] = "marked") =>
              stale_source_files'[e] =
                  {f \in ext_sources[e] :
                      \/ ~HasBaseline(e, f)
                      \/ tracker_store.exts_mtimes[e][f] # src_mtime[f]}
      ]_vars

\* of two files with a baseline, the one written since is stale, the other
\* is not
C12_Witness ==
    /\ phase = "built"
    /\ \E e \in Extensions :
          /\ set_up[e] = "marked"
          /\ ext_sources[e] = SrcPaths
          /\ \A f \in SrcPaths : HasBaseline(e, f)
          /\ stale_source_files[e] # {}
          /\ stale_source_files[e] # SrcPaths

(***************************************************************************)
(* C13.  When an extension asks for its stale files, the paths reported as *)
(* unlisted are exactly the paths for which the previous run persisted an  *)
(* mtime under that extension and which its current list lacks.            *)
(***************************************************************************)
C13_Unlisted ==
    phase \notin BetweenRuns =>
        \A e \in Extensions :
            stale_files[e].queried =>
                stale_files[e].unlisted =
                    {f \in SrcPaths : HasBaseline(e, f)
                                        /\ f \notin ext_sources[e]}

\* of two recorded paths one left the list and is reported, the other stayed
C13_Witness ==
    /\ phase = "built"
    /\ \E e \in Extensions :
          /\ stale_files[e].queried
          /\ stale_files[e].unlisted # {}
          /\ \E f \in ext_sources[e] : HasBaseline(e, f)

(***************************************************************************)
(* C14.  A query for stale paths (mark_extension_stale_sources, or an      *)
(* extension's get_stale_files) leaves the recorded mtimes as they are;    *)
(* change_tracker.p changes only in DocTool.persist; a run that ends in    *)
(* DocTree.__init__, build_tree, setup or resolve_symbols leaves it as the *)
(* previous run wrote it.                                                  *)
(***************************************************************************)
C14_BaselineCommittedAtPersist ==
    [][/\ (\E e \in Extensions :
             \/ set_up[e] = "todo" /\ set_up'[e] = "marked"
             \/ ~stale_files[e].queried /\ stale_files'[e].queried)
          => /\ change_tracker' = change_tracker
             /\ tracker_store' = tracker_store
       /\ (\/ tracker_store' # tracker_store
           \/ (TrackerFile \in corrupt') # (TrackerFile \in corrupt))
          => phase = "built" /\ phase' \in {"idle", "persist_crashed"}
       /\ phase' \in {"load_crashed", "build_crashed", "setup_crashed",
                      "resolve_crashed"}
          => /\ tracker_store' = tracker_store
             /\ (TrackerFile \in corrupt') = (TrackerFile \in corrupt)
      ]_vars

\* an extension was handed stale paths that have a baseline, and the tracker
\* still holds for it what change_tracker.p holds
C14_Witness ==
    /\ phase = "built"
    /\ \E e \in Extensions :
          /\ set_up[e] = "marked"
          /\ \E f \in stale_source_files[e] : HasBaseline(e, f)
          /\ change_tracker.exts_mtimes[e] = tracker_store.exts_mtimes[e]

(***************************************************************************)
(* C15.  Ownership tagging: after build_tree the root carries the core     *)
(* owner, and every page of the hierarchy carries the owner under which    *)
(* its parent lists it: the extension's name for the page the well known   *)
(* name resolves to and for what is nested below it, the parent's owner    *)
(* for a plain link (so the core owner for a sibling of the placeholder).  *)
(***************************************************************************)
C15_PlaceholderTagging ==
    phase = "built" =>
        /\ PageOf(IndexFile).extension_name = NoExt
        /\ \A p \in TreePaths : \A i \in 1..Len(PageOf(p).subpages) :
              PageOf(PageOf(p).subpages[i].path).extension_name
                  = PageOf(p).subpages[i].ext

(***************************************************************************)
(* C16.  After build_tree, while no source is written, every subpage a     *)
(* page of the page map names is a key of the page map, bound to a page,   *)
(* and the file of that page exists; no lookup of a subpage fails, and     *)
(* resolve_symbols never ends on a page that is missing.                   *)
(***************************************************************************)
C16_SubpagesAreLivePages ==
    /\ [](/\ (phase \in AfterBuild /\ late = NoLate) =>
                \A p \in DOMAIN pages : \A i \in 1..Len(PageOf(p).subpages) :
                    LET q == PageOf(p).subpages[i].path
                    IN  /\ q \in DOMAIN pages
                        /\ pages[q] # NonePage
                        /\ fs[q].exists
           /\ failure # KeyError)
    /\ [][(phase = "built" /\ late = NoLate)
            => ~(phase' = "resolve_crashed" /\ failure' = NoPageError)]_vars

(***************************************************************************)
(* C17.  After build_tree the keys of the page map are exactly the source  *)
(* files reachable from the root through subpages.                         *)
(***************************************************************************)
C17_KeysAreTheTree ==
    phase = "built" => DOMAIN pages = TreePaths

(***************************************************************************)
(* C18.  Constructing the DocTree never fails; when pages.p and            *)
(* symbol_maps.p are absent or cannot be unpickled the tree starts with an *)
(* empty page map and no previous symbol maps, and the build that follows  *)
(* leaves every page of the page map stale.                                *)
(***************************************************************************)
C18_NoHistoryStart ==
    [][/\ (phase \in BetweenRuns /\ runs' = runs + 1) =>
             /\ phase' = "loaded"
             /\ (~store.exists \/ corrupt \cap TreeFiles # {}) =>
                   /\ pages' = EmptyMap
                   /\ previous_symbol_maps' = NoPreviousSymbolMaps
       /\ (phase = "loaded" /\ phase' = "built" /\ ~store.exists) =>
             \A p \in DOMAIN pages' : heap'[pages'[p]].is_stale
      ]_vars

(***************************************************************************)
(* C19.  Persistence is all or nothing: whatever happens in DocTool.persist*)
(* the private folder holds afterwards either what it held before or the   *)
(* complete state of this run (change tracker, page map and symbol maps),  *)
(* and no file cut short.                                                  *)
(***************************************************************************)
C19_PersistAllOrNothing ==
    [][(phase = "built" /\ phase' \in {"idle", "persist_crashed"}) =>
          \/ /\ tracker_store' = tracker_store
             /\ store' = store
             /\ corrupt' = corrupt
          \/ /\ tracker_store' = PickledTracker
             /\ store' = [exists |-> TRUE, pages |-> PickledPages,
                          symbol_maps |-> PickledSymbolMaps]
             /\ corrupt' = {}
      ]_vars

(***************************************************************************)
(* Runs of the tree alone over sources that lose files: the index starts   *)
(* with two links, files are linked, written and deleted between the runs. *)
(***************************************************************************)
InitFiles ==
    /\ \E l \in {<<"a">>, <<WellKnownName, "a">>, <<"a", WellKnownName>>} :
          fs = FirstSources(l)
    /\ NoRunYet
    /\ ToolInit
    /\ ExtraInit

NextFiles ==
    \/ \E p \in Paths, d \in Dests : AddLink(p, d)
    \/ \E p \in Paths : TouchFile(p)
    \/ \E p \in Paths : DeleteFile(p)
    \/ Load
    \/ BuildTree
    \/ Persist

SpecFiles == InitFiles /\ [][NextFiles]_vars

(***************************************************************************)
(* C20.  When the index file and the file an extension generates exist,    *)
(* build_tree does not end on a page that is missing: a subpage whose file *)
(* does not exist and that no extension resolves makes no page, and the    *)
(* page map binds no key to None.                                          *)
(***************************************************************************)
C20_MissingPageIsSkipped ==
    [][(BuildTree /\ fs[IndexFile].exists /\ fs[GenFile].exists) =>
          /\ ~(phase' = "build_crashed" /\ failure' = NoPageError)
          /\ \A p \in DOMAIN pages' : pages'[p] # NonePage]_vars

\* C22: persist writes the page map only, the dependency map is
\* never persisted (and so a new process never loads one).
C22_MapNeverPersisted ==
    /\ \A k \in Keys : store.symbol_maps[k] = {}
    /\ \A k \in Keys : previous_symbol_maps[k] = {}

RECURSIVE FreshClosure(_)
\* the source files reachable from those of S through the subpages of pages
\* that are not stale
FreshClosure(S) ==
    LET N == S \cup UNION {Children(p) : p \in {q \in S : ~PageOf(q).is_stale}}
    IN  IF N = S THEN S ELSE FreshClosure(N)

\* C23: resolve_symbols recurses into the subpages of every page, stale or
\* not: a stale page below ancestors that are not stale has its symbols
\* resolved, and a page that is not stale is left as it is (not stale, not
\* reparsed, not resolved) whatever its ancestors are.
C23_StalenessNotInherited ==
    [][(phase = "built" /\ phase' = "resolved")
       => /\ \A p \in FreshClosure({IndexFile}) :
                PageOf(p).is_stale => heap'[pages'[p]].typed_symbols
          /\ \A p \in DOMAIN pages :
                ~PageOf(p).is_stale => /\ pages'[p] = pages[p]
                                       /\ heap'[pages[p]] = PageOf(p)]_vars

\* after a resolution: a root that was not stale and was left alone, above a
\* stale subpage whose symbols were resolved
C23_Witness ==
    /\ phase = "resolved"
    /\ pages[IndexFile] = root
    /\ ~heap[root].is_stale
    /\ ~heap[root].typed_symbols
    /\ \E p \in Children(IndexFile) \ {IndexFile} :
          /\ PageOf(p).is_stale
          /\ PageOf(p).typed_symbols
          /\ PageOf(p).symbols # <<>>

\* resolve_symbols reparses the page of p: stale, no resident ast, and a
\* source file that could be stat'ed
LazilyReparsed(p) ==
    /\ PageOf(p).is_stale
    /\ ~PageOf(p).ast
    /\ PageOf(p).mtime # NoMtime

\* C30: in resolve_symbols, no source being written since build_tree, a page
\* is reparsed exactly when it is stale, has no resident ast and is
\* file-backed; the reparsed page replaces the old one
\* under the same identifier of the page map, keeps the same subpages, and is
\* the page whose symbols are resolved.
C30_LazyReparse ==
    [][(phase = "built" /\ phase' = "resolved" /\ late = NoLate)
       => \A p \in TreePaths :
            /\ (pages'[p] # pages[p]) <=> LazilyReparsed(p)
            /\ LazilyReparsed(p) =>
                  /\ heap'[pages'[p]].source_file = p
                  /\ heap'[pages'[p]].typed_symbols
                  /\ heap'[pages'[p]].subpages = PageOf(p).subpages]_vars

\* C31: every page the dependency map records under a source file is the
\* page the page map binds to that source file, also after resolve_symbols
\* has lazily reparsed and replaced a page.
C31_RecordedPagesAreLive ==
    \A k \in Keys : \A p \in DOMAIN symbol_maps[k] :
        /\ p \in DOMAIN pages
        /\ symbol_maps[k][p] = pages[p]

\* the source files of the pages of the page map that list the name
ListedBy(k) == {p \in DOMAIN pages : k \in NamesOf(PageOf(p))}

\* C32: build_tree returns as moved exactly the names listed by some page of
\* the page map whose set of owning pages in this run differs from their set
\* in the persisted symbol maps of the previous run; nothing in a run that is
\* not incremental, and never a name that no page lists.
C32_MovedSymbols ==
    phase = "built" =>
        moved_symbols =
            IF incremental
            THEN {k \in Keys : /\ ListedBy(k) # {}
                               /\ DOMAIN symbol_maps[k] # previous_symbol_maps[k]}
            ELSE {}

(***************************************************************************)
(* The tree's interface to its callers: lookups and notifications on a     *)
(* tree of three pages, over runs in which files are touched and the       *)
(* symbol of the index is taken off its source.                            *)
(***************************************************************************)
\* the index lists symbol "s" and links to a (and to the generated page),
\* the generated page may link to a as well
ApiSources(l, g) ==
    [FirstSources(l) EXCEPT ![IndexFile].syms = <<"s">>,
                            ![GenFile].links = g]

\* handlers of the extra-symbols signal that add nothing
NoExpansion == [n \in Names |-> <<>>]

InitApi ==
    /\ \E l \in {<<"a">>, <<WellKnownName, "a">>}, g \in {<<>>, <<"a">>} :
          fs = ApiSources(l, g)
    /\ NoRunYet
    /\ ToolInit
    /\ ExtraInit

NextApi ==
    \/ \E p \in Paths : TouchFile(p)
    \/ RemoveSym(IndexFile)
    \/ Load
    \/ BuildTree
    \/ \E known \in {{}, Names} : Resolve(known, NoExpansion)
    \/ \E kind \in UpdateKinds, name \in Names : UpdateNotified(kind, name)
    \/ \E unique_name \in Keys : GetPagesForSymbol(unique_name)
    \/ Persist

SpecApi == InitApi /\ [][NextApi]_vars

\* C34: resolve_symbols on a page that is not stale asks the symbol store
\* for none of its symbols: the page object keeps its symbol_names, its
\* resolved symbols (none were set up, none were added) and its parsed
\* representation.
C34_FreshPageNotQueried ==
    [][(phase = "built" /\ phase' = "resolved")
       => \A id \in DOMAIN heap :
            ~heap[id].is_stale =>
               /\ heap'[id].symbol_names = heap[id].symbol_names
               /\ heap'[id].symbols = heap[id].symbols
               /\ heap'[id].typed_symbols = heap[id].typed_symbols
               /\ heap'[id].ast = heap[id].ast]_vars

\* after a resolution: a page that is not stale lists a name and holds no
\* resolved symbol, while the symbol store knows that name, as the stale page
\* listing it as well shows
C34_Witness ==
    /\ phase = "resolved"
    /\ \E p \in TreePages, q \in TreePages, k \in Names :
          /\ ~heap[p].is_stale
          /\ k \in NamesOf(heap[p])
          /\ heap[p].symbols = <<>>
          /\ ~heap[p].typed_symbols
          /\ heap[q].is_stale
          /\ k \in NamesOf(heap[q])
          /\ SymbolObject(k) \in Range(heap[q].symbols)

\* s is the beginning of t
IsPrefix(s, t) ==
    /\ Len(s) <= Len(t)
    /\ \A i \in DOMAIN s : t[i] = s[i]

\* C35: after the resolution of a stale page its symbol_names hold the name
\* of every symbol resolved for it, those the handlers of
\* resolving_symbol_signal returned directly or transitively included, and
\* the names listed before the resolution come first, in their order.
C35_ExpansionNamesAppended ==
    [][(phase = "built" /\ phase' = "resolved")
       => \A p \in DOMAIN pages :
            (PageOf(p).is_stale /\ heap'[pages'[p]].typed_symbols) =>
               /\ \A k \in Names :
                     SymbolObject(k) \in Range(heap'[pages'[p]].symbols)
                        => k \in Range(heap'[pages'[p]].symbol_names)
               /\ pages'[p] = pages[p]
                     => IsPrefix(PageOf(p).symbol_names,
                                 heap'[pages[p]].symbol_names)]_vars

\* C36: once build_tree has returned, and after every later add_symbol and
\* lazy reparse, the dependency map lists a page for a symbol if and only if
\* the page the page map holds for that source file has the symbol in its
\* symbol_names: no entry outlives a reparse that dropped the symbol.
C36_MapMatchesSymbolNames ==
    phase \in {"built", "resolved"} =>
        \A k \in Keys : \A p \in Paths :
            p \in DOMAIN symbol_maps[k]
               <=> (p \in DOMAIN pages /\ k \in NamesOf(PageOf(p)))

\* the phases of a run in which the tree of the process exists
InRun == {"loaded", "built", "resolved"}

\* C37: within one run, once the page bound to a source file is stale the
\* page bound to that source file is stale in every later state of the run,
\* through notifications, lazy reparse and resolution: a stale page is seen
\* not stale again only in another process, after persist and load.
C37_StaleUntilReloaded ==
    [][(phase \in InRun /\ phase' \in InRun)
       => \A p \in DOMAIN pages :
            PageOf(p).is_stale
               => /\ p \in DOMAIN pages'
                  /\ heap'[pages'[p]].is_stale]_vars

\* a resolved tree in which a loaded page was notified, replaced by a lazy
\* reparse and resolved, the page now bound to its source file being stale,
\* in a run that follows one which persisted that page
C37_Witness ==
    /\ phase = "resolved"
    /\ store.exists
    /\ \E p \in TreePaths :
          /\ PageOf(p).is_stale
          /\ PageOf(p).typed_symbols
          /\ \E id \in DOMAIN heap :
                /\ id # pages[p]
                /\ heap[id].source_file = p
                /\ heap[id].is_stale
                /\ ~heap[id].ast
                /\ heap[id].mtime = PageOf(p).mtime

\* the mtimes the map m of a change tracker records for extension e
RecordedTimes(m, e) == IF e \in DOMAIN m THEN m[e] ELSE EmptyMap

\* C39: in DocTool.setup the stale source files of an extension are computed
\* against the times the previous run recorded, before the setup of that
\* extension has run; the recorded times of an extension change only once
\* its setup has returned; and the symbol resolution starts only after that
\* has happened for every extension.
C39_SetupOrder ==
    [][/\ \A e \in Extensions :
            (set_up[e] = "todo" /\ set_up'[e] = "marked")
               => /\ ~stale_files[e].queried
                  /\ RecordedTimes(change_tracker.exts_mtimes, e)
                        = RecordedTimes(tracker_store.exts_mtimes, e)
                  /\ stale_source_files'[e] =
                        {f \in ext_sources[e] :
                            \/ ~HasBaseline(e, f)
                            \/ tracker_store.exts_mtimes[e][f] # src_mtime[f]}
       /\ \A e \in Extensions :
            (/\ change_tracker.loaded
             /\ change_tracker'.loaded
             /\ RecordedTimes(change_tracker'.exts_mtimes, e)
                   # RecordedTimes(change_tracker.exts_mtimes, e))
               => /\ set_up[e] = "marked"
                  /\ set_up'[e] = "done"
                  /\ \A x \in Extensions \ {e} : set_up'[x] = set_up[x]
       /\ ResolutionStarts => \A e \in Extensions : set_up[e] = "done"
      ]_vars

\* every extension was handed a list of stale sources and set up, one of
\* them with a stale source, and its times were recorded since: the
\* resolve_symbols call is next
C39_Witness ==
    /\ phase = "built"
    /\ tracker_store.exists
    /\ \A e \in Extensions : set_up[e] = "done"
    /\ \E e \in Extensions :
          /\ stale_source_files[e] # {}
          /\ RecordedTimes(change_tracker.exts_mtimes, e)
                # RecordedTimes(tracker_store.exts_mtimes, e)

\* the extension names under which the build_tree of this state asks for
\* the page of p: those of the calls of __do_build_tree for that source file
Requested(p) ==
    LET t == DoBuildTree(TreeState, IndexFile, NoExt, 0, connected)
    IN  {r.ext : r \in {x \in t.requests : x.path = p}}

\* C33: during build_tree, with the index file in place, a page loaded from
\* the previous run is reused without reparsing if and only if the extension
\* name requested for it is its recorded extension_name and the modification
\* time of its source is its recorded mtime or cannot be read; in every
\* other case the source is parsed afresh and the new page is stale.  The
\* pages are those build_tree has bound when it returns or is left.
C33_ReuseOrReparse ==
    [][(BuildTree /\ fs[IndexFile].exists) =>
          LET t == DoBuildTree(TreeState, IndexFile, NoExt, 0, connected)
          IN  \A p \in DOMAIN pages :
                 Requested(p) # {} =>
                    /\ (t.pages[p] = pages[p])
                          <=> /\ Requested(p) = {PageOf(p).extension_name}
                              /\ \/ ~fs[p].exists
                                 \/ fs[p].mtime = PageOf(p).mtime
                    /\ t.pages[p] = pages[p] => t.heap[pages[p]] = PageOf(p)
                    /\ t.pages[p] # pages[p] =>
                          /\ t.pages[p] # NonePage
                          /\ t.heap[t.pages[p]].source_file = p
                          /\ t.heap[t.pages[p]].is_stale
                          /\ t.heap[t.pages[p]].ast]_vars

\* a page of the page map holds the name in its symbol_names
Contained(name) == \E p \in DOMAIN pages : name \in NamesOf(PageOf(p))

\* C21: a lookup in the dependency map, or an update notification, for a
\* symbol name that no page contains is a no-op: nothing is raised, the
\* result is empty, and the staleness and the symbol set of every page are
\* unchanged.
C21_UnknownNameIsNoOp ==
    [][\A name \in Keys :
         ~Contained(name) =>
            /\ GetPagesForSymbol(name) =>
                  /\ lookup'.result = EmptyMap
                  /\ heap' = heap
            /\ (\E kind \in UpdateKinds : UpdateNotified(kind, name)) =>
                  /\ heap' = heap
                  /\ failure' = failure]_vars

(***************************************************************************)
(* The Logger on its own: any sequence of calls.                           *)
(***************************************************************************)
InitLog ==
    /\ fs = FirstSources(<<>>)
    /\ NoRunYet
    /\ ToolInit
    /\ ExtraInit

NextLog ==
    \/ \E code \in Codes, domain \in Domains : RegisterError(code, domain)
    \/ \E code \in Codes, domain \in Domains : RegisterWarning(code, domain)
    \/ \E code \in Codes : Error(code)
    \/ \E code \in Codes : Warn(code)
    \/ \E domain \in Domains : Info(domain)
    \/ \E code \in Codes : IgnoreCode(code)
    \/ \E domain \in Domains : IgnoreDomain(domain)
    \/ TakeCheckpoint
    \/ ReadSinceCheckpoint
    \/ Reset
    \/ SetFatalWarnings
    \/ SetVerbose
    \/ SetExtraLogData

SpecLog == InitLog /\ [][NextLog]_vars

\* the entry _log appends for a code registered as reg, at a level
EntryOf(L, reg, code, level) ==
    [extra |-> L.extra_log_data, level |-> level, domain |-> reg.domain,
     code |-> code, message |-> Message]

\* C25: Logger.error with a code registered as an error appends exactly one
\* ERROR entry to the journal and raises the registered exception, also when
\* the code or its domain is ignored; nothing else of the Logger changes.
C25_ErrorAlwaysLogsAndRaises ==
    (/\ log_obs.op = "error"
     /\ log_obs.code \in DOMAIN log_obs.prev.error_code_to_exception)
    => LET reg == log_obs.prev.error_code_to_exception[log_obs.code]
       IN  /\ logger = [log_obs.prev EXCEPT !.journal =
                           Append(@, EntryOf(log_obs.prev, reg,
                                             log_obs.code, ERROR))]
           /\ log_obs.raised = reg.exc

\* an error raised for an ignored code whose domain is ignored too
C25_Witness ==
    /\ log_obs.op = "error"
    /\ log_obs.code \in DOMAIN log_obs.prev.error_code_to_exception
    /\ log_obs.code \in log_obs.prev.ignored_codes
    /\ log_obs.prev.error_code_to_exception[log_obs.code].domain
          \in log_obs.prev.ignored_domains
    /\ log_obs.raised = ErrorException
    /\ Len(logger.journal) = Len(log_obs.prev.journal) + 1

\* the warn of the last call was for an ignored code, or for a registered
\* code of an ignored domain
WarnIgnored ==
    /\ log_obs.op = "warn"
    /\ \/ log_obs.code \in log_obs.prev.ignored_codes
       \/ /\ log_obs.code \in DOMAIN log_obs.prev.warning_code_to_exception
          /\ log_obs.prev.warning_code_to_exception[log_obs.code].domain
                \in log_obs.prev.ignored_domains

\* C26: Logger.warn for an ignored code, or for a code whose domain is
\* ignored, leaves the journal (and the rest of the Logger) unchanged and
\* raises nothing, whatever fatal_warnings is.
C26_IgnoredWarnIsSilent ==
    WarnIgnored => /\ logger = log_obs.prev
                   /\ log_obs.raised = NoException

\* a silent warn under fatal_warnings, of a code ignored by its domain only,
\* with a journal that already holds an entry
C26_Witness ==
    /\ WarnIgnored
    /\ log_obs.prev.fatal_warnings
    /\ log_obs.code \notin log_obs.prev.ignored_codes
    /\ logger.journal = log_obs.prev.journal
    /\ log_obs.raised = NoException

\* C27: Logger.warn for a registered warning code that is not ignored (by
\* code or by domain) appends exactly one entry: at WARNING level without
\* raising when fatal_warnings is false, at ERROR level and then raising the
\* registered exception when it is true.
C27_WarnLogsOnce ==
    (/\ log_obs.op = "warn"
     /\ log_obs.code \in DOMAIN log_obs.prev.warning_code_to_exception
     /\ ~WarnIgnored)
    => LET reg == log_obs.prev.warning_code_to_exception[log_obs.code]
           level == IF log_obs.prev.fatal_warnings THEN ERROR ELSE WARNING
       IN  /\ logger = [log_obs.prev EXCEPT !.journal =
                           Append(@, EntryOf(log_obs.prev, reg,
                                             log_obs.code, level))]
           /\ log_obs.raised = IF log_obs.prev.fatal_warnings THEN reg.exc
                               ELSE NoException

\* a fatal warning: logged at ERROR level and raised
C27_Witness ==
    /\ log_obs.op = "warn"
    /\ log_obs.code \in DOMAIN log_obs.prev.warning_code_to_exception
    /\ ~WarnIgnored
    /\ log_obs.prev.fatal_warnings
    /\ log_obs.raised = WarningException
    /\ Len(logger.journal) = Len(log_obs.prev.journal) + 1
    /\ logger.journal[Len(logger.journal)].level = ERROR

\* C28: Logger.since_checkpoint returns exactly the entries appended after the
\* most recent checkpoint (all the entries when there was none since the last
\* reset), in the order they were appended.
C28_SinceCheckpoint ==
    log_obs.op = "since_checkpoint" => log_obs.result = log_obs.since

\* entries before and after a checkpoint: only the later ones are returned
C28_Witness ==
    /\ log_obs.op = "since_checkpoint"
    /\ logger.last_checkpoint > 0
    /\ Len(log_obs.result) > 0
    /\ Len(log_obs.result) < Len(logger.journal)

\* C29: after Logger.reset() the whole state of the Logger (registered codes,
\* journal, checkpoint, ignored codes and domains, flags) is the initial one.
C29_ResetIsInitial ==
    log_obs.op = "reset" => logger = InitialLogger

\* a reset of a Logger with an entry, a checkpoint and an ignored domain
C29_Witness ==
    /\ log_obs.op = "reset"
    /\ Len(log_obs.prev.journal) > 0
    /\ log_obs.prev.last_checkpoint > 0
    /\ log_obs.prev.ignored_domains # {}
    /\ logger = InitialLogger

(***************************************************************************)
(* A lone page and the names handed to its add_symbol, in any order and    *)
(* with repetitions.                                                       *)
(***************************************************************************)
MaxAdds == 4

\* Page(source_file, extension_name): a page outside any tree
CreatePage ==
    /\ heap = <<>>
    /\ heap' = <<NewPage(IndexFile, NoExt)>>
    /\ UNCHANGED <<fs, edits, runs, phase, store, pages, symbol_maps,
                   previous_symbol_maps, seen_pages, connected, root,
                   incremental, moved_symbols, failure, walker, extraVars,
                   historyVars, toolVars>>

\* page.add_symbol(unique_name), no tree connected to the signal
PageAddSymbol(unique_name) ==
    /\ Len(heap) = 1
    /\ Len(added) < MaxAdds
    /\ heap' = AddSymbol(TreeState, 1, unique_name, FALSE).heap
    /\ added' = Append(added, unique_name)
    /\ UNCHANGED <<fs, edits, runs, phase, store, pages, symbol_maps,
                   previous_symbol_maps, seen_pages, connected, root,
                   incremental, moved_symbols, failure, walker, logger,
                   log_obs, lookup, tree2, historyVars, toolVars>>

InitPage ==
    /\ fs = FirstSources(<<>>)
    /\ NoRunYet
    /\ ToolInit
    /\ ExtraInit

NextPage ==
    \/ CreatePage
    \/ \E unique_name \in Keys : PageAddSymbol(unique_name)

SpecPage == InitPage /\ [][NextPage]_vars

RECURSIVE FirstOccurrences(_, _)
\* the names of seq[1..n], each at the place of its first occurrence
FirstOccurrences(seq, n) ==
    IF n = 0 THEN <<>>
    ELSE LET init == FirstOccurrences(seq, n - 1)
         IN  IF \E i \in 1..(n - 1) : seq[i] = seq[n] THEN init
             ELSE Append(init, seq[n])

\* C24: Page.add_symbol keeps symbol_names an ordered set: a name already
\* present is not duplicated and keeps its position, so that symbol_names is
\* the names added, in the order of their first insertion.
C24_OrderedSymbolNames ==
    Len(heap) = 1 =>
        LET names == heap[1].symbol_names
        IN  /\ \A i, j \in 1..Len(names) : names[i] = names[j] => i = j
            /\ names = FirstOccurrences(added, Len(added))

\* a name added again after another one: still in front, still once
C24_Witness ==
    /\ Len(heap) = 1
    /\ Len(added) >= 3
    /\ added[1] = added[3]
    /\ added[1] # added[2]
    /\ heap[1].symbol_names = <<added[1], added[2]>>

(***************************************************************************)
(* Two DocTree instances in one process.  Page.adding_symbol_signal is an  *)
(* attribute of the class Page: every tree that went through               *)
(* __update_symbol_maps has a handler connected to the one signal, and     *)
(* add_symbol on any page of the process calls them all.  The first tree   *)
(* is held by the variables of the tree, the second one by tree2; the page *)
(* objects of both live in the heap of the process.                        *)
(***************************************************************************)
\* number of calls made on the two trees
MaxTwoCalls == 4

FirstTree == "first"
SecondTree == "second"

\* the second tree, as the operations of a tree take it
SecondTreeState ==
    [heap |-> heap, pages |-> tree2.pages, symbol_maps |-> tree2.symbol_maps,
     seen |-> tree2.seen, failure |-> NoFailure, ret |-> NonePage,
     requests |-> {}]

RECURSIVE ReceiveNames(_, _, _, _)
\* the handler of tree t called for the add_symbol of names[i..] on page id
ReceiveNames(t, id, names, i) ==
    IF i > Len(names) THEN t
    ELSE ReceiveNames(AddToSymbolMap(t, id, names[i]), id, names, i + 1)

RECURSIVE ReceivePages(_, _)
\* the handler of tree t called for the add_symbol calls of the parser on the
\* pages id.. of the heap, those another tree parsed
ReceivePages(t, id) ==
    IF id > Len(t.heap) THEN t
    ELSE ReceivePages(ReceiveNames(t, id, t.heap[id].symbol_names, 1), id + 1)

\* what the handler of tree t, if connected, has made of its dependency map
\* once another tree has parsed the pages that h holds beyond the heap
Received(t, conn, h) ==
    IF conn THEN ReceivePages([t EXCEPT !.heap = h], Len(heap) + 1).symbol_maps
    ELSE t.symbol_maps

\* the call recorded on tree2
Called(op, on) ==
    [tree2 EXCEPT !.calls = @ + 1, !.op = op, !.on = on]

\* DocTree(doc_tool, prefix) a second time in the process, over a private
\* folder that holds nothing
CreateSecondTree ==
    /\ phase \in {"loaded", "built"}
    /\ ~tree2.created
    /\ tree2' = [NoSecondTree EXCEPT !.created = TRUE]
    /\ UNCHANGED <<fs, edits, runs, phase, store, treeVars, failure, walker,
                   logger, log_obs, lookup, added, historyVars, toolVars>>

\* build_tree(index_file) on the first tree
BuildFirstTree ==
    /\ phase \in {"loaded", "built"}
    /\ tree2.calls < MaxTwoCalls
    /\ LET t1 == DoBuildTree(TreeState, IndexFile, NoExt, 0, connected)
           u  == UpdateSymbolMaps(t1)
       IN  /\ ~Failed(t1)
           /\ phase' = "built"
           /\ heap' = u.t.heap
           /\ pages' = u.t.pages
           /\ symbol_maps' = u.t.symbol_maps
           /\ seen_pages' = u.t.seen
           /\ connected' = TRUE
           /\ root' = u.t.pages[IndexFile]
           /\ moved_symbols' = u.moved
           /\ tree2' = [Called("build_tree", FirstTree) EXCEPT
                          !.symbol_maps = Received(SecondTreeState,
                                                   tree2.connected, u.t.heap)]
    /\ UNCHANGED <<fs, edits, runs, store, previous_symbol_maps, incremental,
                   failure, walker, logger, log_obs, lookup, added,
                   historyVars, toolVars>>

\* build_tree(index_file) on the second tree
BuildSecondTree ==
    /\ tree2.created
    /\ tree2.calls < MaxTwoCalls
    /\ LET t1 == DoBuildTree(SecondTreeState, IndexFile, NoExt, 0,
                             tree2.connected)
           u  == UpdateSymbolMaps(t1)
       IN  /\ ~Failed(t1)
           /\ heap' = u.t.heap
           /\ symbol_maps' = Received(TreeState, connected, u.t.heap)
           /\ tree2' = [Called("build_tree", SecondTree) EXCEPT
                          !.pages = u.t.pages,
                          !.symbol_maps = u.t.symbol_maps,
                          !.seen = u.t.seen,
                          !.connected = TRUE,
                          !.root = u.t.pages[IndexFile]]
    /\ UNCHANGED <<fs, edits, runs, phase, store, pages,
                   previous_symbol_maps, seen_pages, connected, root,
                   incremental, moved_symbols, failure, walker, logger,
                   log_obs, lookup, added, historyVars, toolVars>>

\* add_symbol(unique_name) on the page of the first tree for source file p
AddSymbolFirstTree(p, unique_name) ==
    /\ phase = "built"
    /\ p \in DOMAIN pages
    /\ tree2.calls < MaxTwoCalls
    /\ LET t1 == AddSymbol(TreeState, pages[p], unique_name, connected)
       IN  /\ heap' = t1.heap
           /\ symbol_maps' = t1.symbol_maps
           /\ tree2' = [Called("add_symbol", FirstTree) EXCEPT
                          !.symbol_maps =
                              IF tree2.connected
                              THEN AddToSymbolMap(SecondTreeState, pages[p],
                                                  unique_name).symbol_maps
                              ELSE @]
    /\ UNCHANGED <<fs, edits, runs, phase, store, pages,
                   previous_symbol_maps, seen_pages, connected, root,
                   incremental, moved_symbols, failure, walker, logger,
                   log_obs, lookup, added, historyVars, toolVars>>

\* add_symbol(unique_name) on the page of the second tree for source file p
AddSymbolSecondTree(p, unique_name) ==
    /\ tree2.connected
    /\ p \in DOMAIN tree2.pages
    /\ tree2.calls < MaxTwoCalls
    /\ LET t2 == AddSymbol(SecondTreeState, tree2.pages[p], unique_name,
                           tree2.connected)
       IN  /\ heap' = t2.heap
           /\ tree2' = [Called("add_symbol", SecondTree) EXCEPT
                          !.symbol_maps = t2.symbol_maps]
           /\ symbol_maps' =
                 IF connected
                 THEN AddToSymbolMap(TreeState, tree2.pages[p],
                                     unique_name).symbol_maps
                 ELSE symbol_maps
    /\ UNCHANGED <<fs, edits, runs, phase, store, pages,
                   previous_symbol_maps, seen_pages, connected, root,
                   incremental, moved_symbols, failure, walker, logger,
                   log_obs, lookup, added, historyVars, toolVars>>

\* index lists what s says and links to a or not; a lists symbol "t"
TwoSources(l, s) ==
    [FirstSources(l) EXCEPT ![IndexFile].syms = s, !["a"].syms = <<"t">>]

InitTwo ==
    /\ \E l \in {<<>>, <<"a">>}, s \in {<<>>, <<"s">>} : fs = TwoSources(l, s)
    /\ NoRunYet
    /\ ToolInit
    /\ ExtraInit

NextTwo ==
    \/ Load
    \/ CreateSecondTree
    \/ BuildFirstTree
    \/ BuildSecondTree
    \/ \E p \in UserPaths, unique_name \in Names :
          AddSymbolFirstTree(p, unique_name)
    \/ \E p \in UserPaths, unique_name \in Names :
          AddSymbolSecondTree(p, unique_name)

SpecTwo == InitTwo /\ [][NextTwo]_vars

\* the pages of the map pgs keep their staleness over the step
SameStaleness(pgs) ==
    \A p \in DOMAIN pgs : heap'[pgs[p]].is_stale = heap[pgs[p]].is_stale

\* C38: the notifications of add_symbol stay within one tree: a build_tree
\* or an add_symbol on a page of one DocTree changes neither the dependency
\* map nor the staleness of the pages of the other DocTree of the process.
C38_TreesAreIsolated ==
    [][(tree2.created /\ tree2'.calls = tree2.calls + 1)
       => /\ tree2'.on = FirstTree
                => /\ tree2'.symbol_maps = tree2.symbol_maps
                   /\ SameStaleness(tree2.pages)
          /\ tree2'.on = SecondTree
                => /\ symbol_maps' = symbol_maps
                   /\ SameStaleness(pages)]_vars

====
